---- MODULE Spec2Model ----
(***************************************************************************)
(* Model of auth0-fastapi-api: the canonical-URL resolver                  *)
(* (fastapi_plugin/utils.py) and the require_auth dependency               *)
(* (fastapi_plugin/fast_api_client.py).                                    *)
(*                                                                         *)
(* Python strings are sequences of one-character strings, so that strip,   *)
(* lower, find, slicing, urlparse and urlunparse are computed character by *)
(* character.  Optional[str] is a sequence of length at most one: <<>> is  *)
(* None and <<s>> is the string s.                                         *)
(***************************************************************************)
EXTENDS Integers, Sequences, FiniteSets, TLC

VARIABLES app_state, config, options, request, scopes, pc, canonical, http_url, verified, error, outcome, verify_calls,
          inflight, call, result

vars == <<app_state, config, options, request, scopes, pc, canonical, http_url, verified, error, outcome, verify_calls,
          inflight, call, result>>

----------------------------------------------------------------------------
(* Bounds of the explored input space *)

\* most whitespace characters put on each side of a forwarded header value
MaxPad == 1
\* most further proxies listed after the first X-Forwarded-Host entry
MaxHops == 1
\* most trailing slashes appended to an X-Forwarded-Prefix value
MaxSlash == 1

----------------------------------------------------------------------------
(* Python str primitives *)

None == <<>>
Some(v) == <<v>>

NUL == "NUL"

\* characters removed by str.strip() / str.rstrip() without argument
Whitespace == {" ", "\t"}

UpperAlphabet == <<"A", "B", "C", "D", "E", "F", "G", "H", "I", "J", "K", "L", "M",
                   "N", "O", "P", "Q", "R", "S", "T", "U", "V", "W", "X", "Y", "Z">>

LowerAlphabet == <<"a", "b", "c", "d", "e", "f", "g", "h", "i", "j", "k", "l", "m",
                   "n", "o", "p", "q", "r", "s", "t", "u", "v", "w", "x", "y", "z">>

Digits == {"0", "1", "2", "3", "4", "5", "6", "7", "8", "9"}

LowerChar(c) ==
    IF \E i \in 1..26 : UpperAlphabet[i] = c
    THEN LowerAlphabet[CHOOSE i \in 1..26 : UpperAlphabet[i] = c]
    ELSE c

UpperChar(c) ==
    IF \E i \in 1..26 : LowerAlphabet[i] = c
    THEN UpperAlphabet[CHOOSE i \in 1..26 : LowerAlphabet[i] = c]
    ELSE c

\* str.lower()
lower(s) == [i \in 1..Len(s) |-> LowerChar(s[i])]

\* str.upper()
upper(s) == [i \in 1..Len(s) |-> UpperChar(s[i])]

RECURSIVE lstrip(_, _)
\* str.lstrip(chars)
lstrip(s, chars) ==
    IF s # <<>> /\ s[1] \in chars THEN lstrip(Tail(s), chars) ELSE s

RECURSIVE rstrip(_, _)
\* str.rstrip(chars)
rstrip(s, chars) ==
    IF s # <<>> /\ s[Len(s)] \in chars THEN rstrip(SubSeq(s, 1, Len(s) - 1), chars) ELSE s

\* str.strip()
strip(s) == lstrip(rstrip(s, Whitespace), Whitespace)

\* 0-based index of the first character of s at or after position from that is in chars, or -1
FindAnyFrom(s, chars, from) ==
    IF \E i \in (from + 1)..Len(s) : s[i] \in chars
    THEN (CHOOSE i \in (from + 1)..Len(s) :
              s[i] \in chars /\ \A j \in (from + 1)..(i - 1) : s[j] \notin chars) - 1
    ELSE -1

\* str.find(c) for a one-character needle: 0-based index of the first c, or -1
find(s, c) == FindAnyFrom(s, {c}, 0)

\* str.rfind(c): 0-based index of the last c, or -1
rfind(s, c) ==
    IF \E i \in 1..Len(s) : s[i] = c
    THEN (CHOOSE i \in 1..Len(s) : s[i] = c /\ \A j \in (i + 1)..Len(s) : s[j] # c) - 1
    ELSE -1

\* s[:n] for 0 <= n
Prefix(s, n) == SubSeq(s, 1, IF n < Len(s) THEN n ELSE Len(s))

\* s[n:] for 0 <= n
Suffix(s, n) == SubSeq(s, n + 1, Len(s))

\* <<s[:i], s[i+1:]>> for an index i found by find, <<s, ''>> for i = -1
SplitAt(s, i) == IF i = -1 THEN <<s, <<>>>> ELSE <<Prefix(s, i), Suffix(s, i + 1)>>

\* s.split(c, 1) padded to two parts
Partition(s, c) == SplitAt(s, find(s, c))

\* s or None
NoneIfEmpty(s) == IF s = <<>> THEN None ELSE Some(s)

----------------------------------------------------------------------------
(* urllib.parse: urlparse and urlunparse (CPython 3.11, Lib/urllib/parse.py) *)

S_http == <<"h", "t", "t", "p">>
S_https == <<"h", "t", "t", "p", "s">>
S_ftp == <<"f", "t", "p">>

\* the members of urllib.parse.uses_netloc / uses_params that the inputs can produce
uses_netloc == {<<>>, S_http, S_https, S_ftp}
uses_params == {<<>>, S_http, S_https, S_ftp}

IsAlpha(c) == \E i \in 1..26 : UpperAlphabet[i] = c \/ LowerAlphabet[i] = c

scheme_chars == Digits \cup {"+", "-", "."}

IsSchemeChar(c) == IsAlpha(c) \/ c \in scheme_chars

\* urlsplit, scheme: the index i of the first ':' when url[:i] is a scheme, else -1
SchemeEndAt(url, i) ==
    IF i > 0 /\ IsAlpha(url[1]) /\ \A k \in 1..i : IsSchemeChar(url[k]) THEN i ELSE -1

\* urlsplit, scheme: <<scheme, rest>>
SplitScheme(url, i) ==
    IF i = -1 THEN <<<<>>, url>> ELSE <<lower(Prefix(url, i)), Suffix(url, i + 1)>>

\* _splitnetloc(url, 2): <<netloc, rest>>, delim the index of the first of '/?#' after '//'
SplitNetlocAt(u, delim) ==
    IF delim = -1 THEN <<Suffix(u, 2), <<>>>> ELSE <<SubSeq(u, 3, delim), Suffix(u, delim)>>

\* urlsplit, netloc: <<netloc, rest>>
SplitNetloc(u) ==
    IF Len(u) >= 2 /\ u[1] = "/" /\ u[2] = "/"
    THEN SplitNetlocAt(u, FindAnyFrom(u, {"/", "?", "#"}, 2))
    ELSE <<<<>>, u>>

urlsplit_result(scheme, netloc, pq, fragment) == <<scheme, netloc, pq[1], pq[2], fragment>>

\* urlsplit, query: uf = <<url without fragment, fragment>>
urlsplit_query(scheme, netloc, uf) == urlsplit_result(scheme, netloc, Partition(uf[1], "?"), uf[2])

\* urlsplit, fragment: nr = <<netloc, rest>>
urlsplit_fragment(scheme, nr) == urlsplit_query(scheme, nr[1], Partition(nr[2], "#"))

\* urlsplit, netloc: sr = <<scheme, rest>>
urlsplit_netloc(sr) == urlsplit_fragment(sr[1], SplitNetloc(sr[2]))

\* urlsplit: <<scheme, netloc, path, query, fragment>>
urlsplit(url) == urlsplit_netloc(SplitScheme(url, SchemeEndAt(url, find(url, ":"))))

\* _splitparams: <<path, params>>, split at the first ';' of the last path segment
splitparams(url) ==
    SplitAt(url, FindAnyFrom(url, {";"}, IF rfind(url, "/") = -1 THEN 0 ELSE rfind(url, "/")))

urlparse_result(sp, pp) ==
    [scheme |-> sp[1], netloc |-> sp[2], path |-> pp[1], params |-> pp[2],
     query |-> sp[4], fragment |-> sp[5]]

\* urlparse after urlsplit: parameters are split off for the schemes in uses_params
urlparse_params(sp) ==
    urlparse_result(sp, IF sp[1] \in uses_params /\ find(sp[3], ";") # -1
                        THEN splitparams(sp[3])
                        ELSE <<sp[3], <<>>>>)

\* urlparse: ParseResult(scheme, netloc, path, params, query, fragment)
urlparse(url) == urlparse_params(urlsplit(url))

\* urlsplit raises ValueError("Invalid IPv6 URL") for a netloc with one of '[' and ']'
\* and not the other
urlsplit_invalid_netloc(netloc) == (find(netloc, "[") # -1) # (find(netloc, "]") # -1)

\* urlparse(url) raises
urlparse_raises(url) == urlsplit_invalid_netloc(urlsplit(url)[2])

\* urlunsplit: '//' + netloc + url, with a '/' put before a relative url
add_netloc(scheme, netloc, url) ==
    IF \/ netloc # <<>>
       \/ (scheme # <<>> /\ scheme \in uses_netloc /\ Prefix(url, 2) # <<"/", "/">>)
    THEN <<"/", "/">> \o netloc \o (IF url # <<>> /\ url[1] # "/" THEN <<"/">> \o url ELSE url)
    ELSE url

add_scheme(scheme, url) == IF scheme # <<>> THEN scheme \o <<":">> \o url ELSE url

add_query(url, query) == IF query # <<>> THEN url \o <<"?">> \o query ELSE url

add_fragment(url, fragment) == IF fragment # <<>> THEN url \o <<"#">> \o fragment ELSE url

\* urlunsplit
urlunsplit(scheme, netloc, url, query, fragment) ==
    add_fragment(add_query(add_scheme(scheme, add_netloc(scheme, netloc, url)), query), fragment)

\* urlunparse
urlunparse(c) ==
    urlunsplit(c.scheme, c.netloc,
               IF c.params # <<>> THEN c.path \o <<";">> \o c.params ELSE c.path,
               c.query, c.fragment)

----------------------------------------------------------------------------
(* fastapi_plugin/utils.py: the canonical-URL resolver *)

\* should_trust_proxy with the getattr default flipped to True
should_trust_proxy_default_true(app) ==
    IF app.trust_proxy = None THEN TRUE ELSE app.trust_proxy[1]

\* getattr(request.app.state, 'trust_proxy', False); app_state.trust_proxy is None when
\* the attribute was never set
should_trust_proxy(app) ==
    IF app.trust_proxy = None THEN FALSE ELSE app.trust_proxy[1]

\* forwarded_host[:comma_index].rstrip() when there is a comma
first_forwarded_host(h, comma_index) ==
    IF comma_index # -1 THEN rstrip(Prefix(h, comma_index), Whitespace) ELSE h

\* _parse_forwarded_host without the split at the first comma
parse_forwarded_host_no_split(forwarded_host) ==
    IF forwarded_host = None \/ forwarded_host[1] = <<>>
    THEN None
    ELSE NoneIfEmpty(strip(forwarded_host[1]))

\* _parse_forwarded_host: Optional[str] -> Optional[str]
parse_forwarded_host(forwarded_host) ==
    IF forwarded_host = None \/ forwarded_host[1] = <<>>
    THEN None
    ELSE NoneIfEmpty(strip(first_forwarded_host(forwarded_host[1], find(forwarded_host[1], ","))))

\* request.headers.get(name) / request.headers.get(name, default)
header_get(req, name, default) ==
    IF req.headers[name] = None THEN default ELSE req.headers[name]

\* forwarded_overrides with the prefix block nested under the forwarded-host block
forwarded_overrides_nested(trust, parsed, forwarded_proto, parsed_host, forwarded_prefix) ==
    [scheme |-> IF trust /\ forwarded_proto # None /\ forwarded_proto[1] # <<>>
                THEN lower(strip(forwarded_proto[1]))
                ELSE parsed.scheme,
     netloc |-> IF trust /\ parsed_host # None THEN parsed_host[1] ELSE parsed.netloc,
     path |-> IF trust /\ parsed_host # None /\ forwarded_prefix # <<>>
              THEN rstrip(forwarded_prefix, {"/"}) \o parsed.path
              ELSE parsed.path,
     params |-> parsed.params, query |-> parsed.query, fragment |-> <<>>]

\* forwarded_overrides without the rstrip("/") of the prefix
forwarded_overrides_keep_slash(trust, parsed, forwarded_proto, parsed_host, forwarded_prefix) ==
    [scheme |-> IF trust /\ forwarded_proto # None /\ forwarded_proto[1] # <<>>
                THEN lower(strip(forwarded_proto[1]))
                ELSE parsed.scheme,
     netloc |-> IF trust /\ parsed_host # None THEN parsed_host[1] ELSE parsed.netloc,
     path |-> IF trust /\ forwarded_prefix # <<>>
              THEN forwarded_prefix \o parsed.path
              ELSE parsed.path,
     params |-> parsed.params, query |-> parsed.query, fragment |-> <<>>]

\* get_canonical_url, lines 102-133: the direct components, each overridden by its own
\* forwarded header when the proxy is trusted; the six values handed to urlunparse
forwarded_overrides(trust, parsed, forwarded_proto, parsed_host, forwarded_prefix) ==
    [scheme |-> IF trust /\ forwarded_proto # None /\ forwarded_proto[1] # <<>>
                THEN lower(strip(forwarded_proto[1]))
                ELSE parsed.scheme,
     netloc |-> IF trust /\ parsed_host # None THEN parsed_host[1] ELSE parsed.netloc,
     path |-> IF trust /\ forwarded_prefix # <<>>
              THEN rstrip(forwarded_prefix, {"/"}) \o parsed.path
              ELSE parsed.path,
     params |-> parsed.params, query |-> parsed.query, fragment |-> <<>>]

\* get_canonical_url up to the call of urlunparse: the six components handed to it
canonical_components(app, req) ==
    forwarded_overrides(should_trust_proxy(app),
                        urlparse(req.url),
                        header_get(req, "x-forwarded-proto", None),
                        parse_forwarded_host(header_get(req, "x-forwarded-host", None)),
                        strip(header_get(req, "x-forwarded-prefix", Some(<<>>))[1]))

\* get_canonical_url raises: urlparse(str(request.url)), line 100
get_canonical_url_raises(app, req) == urlparse_raises(req.url)

\* get_canonical_url
get_canonical_url(app, req) == urlunparse(canonical_components(app, req))

----------------------------------------------------------------------------
(* Inputs: direct URLs and forwarded header values *)

\* "http://internal/test"
U_internal_test ==
    <<"h", "t", "t", "p", ":", "/", "/", "i", "n", "t", "e", "r", "n", "a", "l", "/", "t", "e", "s", "t">>

\* "http://internal/test?q=1"
U_internal_test_q ==
    <<"h", "t", "t", "p", ":", "/", "/", "i", "n", "t", "e", "r", "n", "a", "l", "/", "t", "e", "s", "t", "?", "q", "=", "1">>

\* "https://h:8/a;p?q=1#f"
U_params_fragment ==
    <<"h", "t", "t", "p", "s", ":", "/", "/", "h", ":", "8", "/", "a", ";", "p", "?", "q", "=", "1", "#", "f">>

DirectUrls == {U_internal_test, U_internal_test_q, U_params_fragment}

S_internal == <<"i", "n", "t", "e", "r", "n", "a", "l">>
S_test == <<"/", "t", "e", "s", "t">>
S_api_example_com == <<"a", "p", "i", ".", "e", "x", "a", "m", "p", "l", "e", ".", "c", "o", "m">>
S_a_com_8443 == <<"a", ".", "c", "o", "m", ":", "8", "4", "4", "3">>
S_hop == <<",", " ", "b", ".", "i", "n", "t", "e", "r", "n", "a", "l">>
S_HtTpS == <<"H", "t", "T", "p", "S">>
S_api_v1 == <<"/", "a", "p", "i", "/", "v", "1">>
S_api_v1_noslash == <<"a", "p", "i", "/", "v", "1">>
S_dotdot_admin == <<"/", ".", ".", "/", "a", "d", "m", "i", "n">>
S_slashslash_evil == <<"/", "/", "e", "v", "i", "l">>
S_colon == <<"/", "a", ":", "b">>
S_nul == <<"/", "a", NUL>>
S_pct_dotdot == <<"/", "%", "2", "E", "%", "2", "e", "/", "x">>
S_hash == <<"/", "a", "#", "b">>
S_api_v1_test == <<"/", "a", "p", "i", "/", "v", "1", "/", "t", "e", "s", "t">>

\* "https://api.example.com/test"
U_public_test ==
    <<"h", "t", "t", "p", "s", ":", "/", "/", "a", "p", "i", ".", "e", "x", "a", "m", "p", "l", "e", ".", "c", "o", "m", "/", "t", "e", "s", "t">>

Repeat(c, n) == [i \in 1..n |-> c]

RECURSIVE Hops(_)
Hops(k) == IF k = 0 THEN <<>> ELSE S_hop \o Hops(k - 1)

ProtoCores == {S_https, S_HtTpS, S_ftp, <<>>}
HostCores == {S_api_example_com, S_a_com_8443, <<>>}
PrefixCores == {S_api_v1, S_api_v1_noslash, S_dotdot_admin, S_slashslash_evil,
                S_colon, S_nul, S_pct_dotdot, S_hash, <<>>}

ProtoValues ==
    {None} \cup {Some(Repeat(" ", p) \o c \o Repeat("\t", p)) : p \in 0..MaxPad, c \in ProtoCores}

HostValues ==
    {None} \cup {Some(Repeat(" ", p) \o c \o Repeat(" ", p) \o Hops(k)) :
                    p \in 0..MaxPad, c \in HostCores, k \in 0..MaxHops}

PrefixValues ==
    {None} \cup {Some(Repeat(" ", p) \o c \o Repeat("/", t) \o Repeat(" ", p)) :
                    p \in 0..MaxPad, c \in PrefixCores, t \in 0..MaxSlash}

\* app.state of a FastAPI application: trust_proxy never set, False or True
AppStates == {[trust_proxy |-> t] : t \in {None, Some(FALSE), Some(TRUE)}}

\* "GET"
M_GET == <<"G", "E", "T">>

\* "POST"
M_POST == <<"P", "O", "S", "T">>

Methods == {M_GET, M_POST}

NoAuthHeaders == [authorization |-> None, dpop |-> None]

MkHeaders(proto, host, prefix, auth) ==
    [n \in {"x-forwarded-proto", "x-forwarded-host", "x-forwarded-prefix", "authorization", "dpop"} |->
        CASE n = "x-forwarded-proto" -> proto
          [] n = "x-forwarded-host" -> host
          [] n = "x-forwarded-prefix" -> prefix
          [] n = "authorization" -> auth.authorization
          [] n = "dpop" -> auth.dpop]

UrlRequests ==
    {[method |-> M_GET, url |-> u, headers |-> MkHeaders(pr, ho, pf, NoAuthHeaders)] :
        u \in DirectUrls, pr \in ProtoValues, ho \in HostValues, pf \in PrefixValues}

NoComponents ==
    [scheme |-> <<>>, netloc |-> <<>>, path |-> <<>>, params |-> <<>>, query |-> <<>>,
     fragment |-> <<>>]

----------------------------------------------------------------------------
(* fastapi_plugin/fast_api_client.py: Auth0FastAPI.__init__ *)

\* defaults of dpop_iat_leeway and dpop_iat_offset
DpopIatLeeway == 30
DpopIatOffset == 300

\* the constructor arguments that select the DPoP mode
Configs == [dpop_enabled : BOOLEAN, dpop_required : BOOLEAN]

\* Auth0FastAPI_init that does not hand dpop_required on to ApiClientOptions
Auth0FastAPI_init_drop_required(cfg) ==
    [dpop_enabled |-> cfg.dpop_enabled, dpop_required |-> FALSE,
     dpop_iat_leeway |-> DpopIatLeeway, dpop_iat_offset |-> DpopIatOffset]

\* Auth0FastAPI.__init__: self.api_client = ApiClient(ApiClientOptions(...)); the value is
\* api_client.options
Auth0FastAPI_init(cfg) ==
    [dpop_enabled |-> cfg.dpop_enabled, dpop_required |-> cfg.dpop_required,
     dpop_iat_leeway |-> DpopIatLeeway, dpop_iat_offset |-> DpopIatOffset]

----------------------------------------------------------------------------
(* Tokens, proofs and requests of the authentication flow *)

\* a Python dict is the sequence of its items <<key, value>> in insertion order
\* key in d
has_key(d, k) == \E i \in 1..Len(d) : d[i][1] = k

\* d[k] for a key of d
getitem(d, k) == d[CHOOSE i \in 1..Len(d) : d[i][1] = k][2]

\* the KeyError d[k] raises for a key that d lacks
KeyError(k) == <<"KeyError", k>>

\* the private EC JWK of the test utilities
PRIVATE_DPOP_JWK ==
    <<<<"kty", "EC">>, <<"alg", "ES256">>, <<"use", "sig">>, <<"kid", "DPOP_TEST_KEY">>,
      <<"crv", "P-256">>,
      <<"x", "WKn-ZIGevcwGIyyrzFoZNBdaq9_TsqzGHwHitJBcBmXdA_x4ySJOjY_1WykDKVf_">>,
      <<"y", "Hkwp7nOHFcFancWLb-AmIYhZaUO_6-DoV0oNNXLgr-M">>,
      <<"d", "Hndv7ZZjs_ke8o9zXYo3iq-Yr8SewI5vrqd0pAvqPqg">>>>

\* its public counterpart
PUBLIC_DPOP_JWK ==
    <<<<"kty", "EC">>, <<"alg", "ES256">>, <<"use", "sig">>, <<"kid", "DPOP_TEST_KEY">>,
      <<"crv", "P-256">>,
      <<"x", "WKn-ZIGevcwGIyyrzFoZNBdaq9_TsqzGHwHitJBcBmXdA_x4ySJOjY_1WykDKVf_">>,
      <<"y", "Hkwp7nOHFcFancWLb-AmIYhZaUO_6-DoV0oNNXLgr-M">>>>

\* the public key of another client, as embedded in a proof header
OTHER_JWK == [kty |-> "EC", crv |-> "P-256", x |-> "other-x", y |-> "other-y"]

\* base64url_encode(hashlib.sha256(data).digest()): an injective digest
base64url_sha256(data) == <<"sha256", data>>

\* sha256_hash of the test utilities
sha256_hash(data) == base64url_sha256(data)

\* json.dumps(thumbprint_jwk, sort_keys=True, separators=(',', ':')) of the four fields
canonical_json(crv, kty, x, y) == <<<<"crv", crv>>, <<"kty", kty>>, <<"x", x>>, <<"y", y>>>>

\* calculate_jwk_thumbprint that hashes the key as it is given
calculate_jwk_thumbprint_whole(jwk_dict) == base64url_sha256(jwk_dict)

\* calculate_jwk_thumbprint of the test utilities: the four fields are read in the order
\* crv, kty, x, y, and the first one missing raises KeyError
calculate_jwk_thumbprint(jwk_dict) ==
    IF ~has_key(jwk_dict, "crv") THEN KeyError("crv")
    ELSE IF ~has_key(jwk_dict, "kty") THEN KeyError("kty")
    ELSE IF ~has_key(jwk_dict, "x") THEN KeyError("x")
    ELSE IF ~has_key(jwk_dict, "y") THEN KeyError("y")
    ELSE base64url_sha256(canonical_json(getitem(jwk_dict, "crv"), getitem(jwk_dict, "kty"),
                                         getitem(jwk_dict, "x"), getitem(jwk_dict, "y")))

\* JWK thumbprint as the verifier computes it: SHA-256 over the JSON object of exactly
\* crv, kty, x, y with sorted keys
Thumbprint(k) == base64url_sha256(canonical_json(k.crv, k.kty, k.x, k.y))

\* base64url(SHA-256(token)) as the verifier computes it
Sha256(token) == base64url_sha256(token)

\* the header of a proof: the embedded public key, the four fields only
proof_header_jwk(k) ==
    [kty |-> getitem(k, "kty"), crv |-> getitem(k, "crv"), x |-> getitem(k, "x"),
     y |-> getitem(k, "y")]

\* public keys a proof header can embed
Keys == {proof_header_jwk(PUBLIC_DPOP_JWK), OTHER_JWK}

\* "read:data write:data"
S_scope_read_write ==
    <<"r", "e", "a", "d", ":", "d", "a", "t", "a", " ", "w", "r", "i", "t", "e", ":", "d", "a", "t", "a">>

\* "read:data"
S_read_data == <<"r", "e", "a", "d", ":", "d", "a", "t", "a">>

\* "delete:data"
S_delete_data == <<"d", "e", "l", "e", "t", "e", ":", "d", "a", "t", "a">>

\* the Auth0 domain of the application and of the tokens
Domain == "auth0.local"

\* f"https://{domain}/"
default_issuer(domain) == <<"https://", domain, "/">>

\* "https://invalid-issuer.local"
S_invalid_issuer == <<"https://invalid-issuer.local">>

\* the issuer argument of the generators: None, False or a string
IssuerArgs == {None, Some([bool |-> FALSE]), Some([str |-> S_invalid_issuer])}

\* issuer_claim with 'if issuer:' for 'if issuer is not False:' and an empty iss otherwise
issuer_claim_falsy(domain, issuer) ==
    IF issuer # None /\ "bool" \in DOMAIN issuer[1] /\ ~issuer[1].bool
    THEN Some(<<>>)
    ELSE IF issuer # None /\ "str" \in DOMAIN issuer[1] /\ issuer[1].str # <<>>
    THEN Some(issuer[1].str)
    ELSE Some(default_issuer(domain))

\* the iss claim the generators set: omitted for False, the string if one is given, else
\* the default issuer of the domain
issuer_claim(domain, issuer) ==
    IF issuer # None /\ "bool" \in DOMAIN issuer[1] /\ ~issuer[1].bool
    THEN None
    ELSE IF issuer # None /\ "str" \in DOMAIN issuer[1]
    THEN Some(issuer[1].str)
    ELSE Some(default_issuer(domain))

\* seconds until expiry the generators use by default
ExpirationTime == 3600

\* the claims argument of the generators: None, or a dict that may carry sub and scope
extra_claims(sub, scope) == [sub |-> sub, scope |-> scope]

\* token_claims = dict(claims or {}); token_claims.setdefault("sub", user_id)
sub_claim(user_id, claims) == IF claims.sub # None THEN claims.sub[1] ELSE user_id

\* generate_token: the claims of the RS256-signed JWT
generate_token(domain, user_id, issuer, exp, claims, token_type) ==
    [claims |->
        [sub |-> sub_claim(user_id, claims),
         exp |-> IF exp THEN Some(ExpirationTime) ELSE None,
         iss |-> issuer_claim(domain, issuer),
         scope |-> claims.scope,
         cnf |-> IF token_type = "dpop"
                 THEN Some([jkt |-> calculate_jwk_thumbprint(PRIVATE_DPOP_JWK)])
                 ELSE None]]

\* generate_dpop_bound_token: as generate_token, with cnf.jkt the given thumbprint or, by
\* default, the thumbprint of the test key
generate_dpop_bound_token(domain, user_id, issuer, exp, claims, cnf_jkt) ==
    [claims |->
        [sub |-> sub_claim(user_id, claims),
         exp |-> IF exp THEN Some(ExpirationTime) ELSE None,
         iss |-> issuer_claim(domain, issuer),
         scope |-> claims.scope,
         cnf |-> Some([jkt |-> IF cnf_jkt = None
                               THEN calculate_jwk_thumbprint(PRIVATE_DPOP_JWK)
                               ELSE cnf_jkt[1]])]]

\* issuer and exp arguments: a token the verifier accepts, and the three invalid tokens
\* of the tests (no iss, wrong iss, no exp)
TokenSpecs ==
    {<<None, TRUE>>, <<Some([bool |-> FALSE]), TRUE>>, <<Some([str |-> S_invalid_issuer]), TRUE>>,
     <<None, FALSE>>}

\* the scope claim of a token: none, or "read:data write:data"
ScopeClaims == {None, Some(S_scope_read_write)}

\* the list ['read:data'] as the value of a claim: a value that is no string, written as
\* one element that no character of a string equals
L_read_data == <<"['read:data']">>

\* claim values that are no strings
NonStrings == {L_read_data}

\* issuer, exp and scope of the tokens presented: the invalid tokens carry no scope, one
\* valid token carries the scope claim ['read:data'], a JSON array
TokenArgs ==
    {<<ts[1], ts[2], None>> : ts \in TokenSpecs}
    \cup {<<None, TRUE, sc>> : sc \in ScopeClaims \cup {Some(L_read_data)}}

\* access tokens presented: bearer tokens and DPoP-bound tokens
Tokens ==
    {generate_token(Domain, "user_123", ta[1], ta[2], extra_claims(None, ta[3]), "bearer") : ta \in TokenArgs}
    \cup {generate_dpop_bound_token(Domain, "user_123", ta[1], ta[2], extra_claims(None, ta[3]),
                                    None) : ta \in TokenArgs}

\* a token other than the one presented, for a foreign ath
OtherToken == generate_token(Domain, "user_456", None, TRUE, extra_claims(None, None), "bearer")

\* seconds between the proof's iat and the time of the request
IatOffsets == {0, -(DpopIatOffset + 1)}

\* int(time.time()): the time of the request, from which iat offsets are counted
Now == 0

\* lines 159-165: the claims every proof carries
proof_claims(http_method, url, iat_offset, jti) ==
    [jti |-> jti, htm |-> upper(http_method), htu |-> url, iat |-> Now + iat_offset,
     jkt |-> calculate_jwk_thumbprint(PRIVATE_DPOP_JWK)]

\* lines 167-169: proof_claims["ath"] = sha256_hash(access_token)
with_ath(claims, access_token) ==
    [jti |-> claims.jti, htm |-> claims.htm, htu |-> claims.htu, iat |-> claims.iat,
     jkt |-> claims.jkt, ath |-> sha256_hash(access_token)]

\* lines 171-173: proof_claims["nonce"] = nonce, for claims without and with ath
with_nonce(claims, nonce) ==
    IF "ath" \in DOMAIN claims
    THEN [jti |-> claims.jti, htm |-> claims.htm, htu |-> claims.htu, iat |-> claims.iat,
          jkt |-> claims.jkt, ath |-> claims.ath, nonce |-> nonce]
    ELSE [jti |-> claims.jti, htm |-> claims.htm, htu |-> claims.htu, iat |-> claims.iat,
          jkt |-> claims.jkt, nonce |-> nonce]

\* lines 175-185: the header of the proof
proof_header == [alg |-> "ES256", typ |-> "dpop+jwt", jwk |-> proof_header_jwk(PUBLIC_DPOP_JWK)]

\* header and claims of a signed proof
jwt_encode(header, claims) == [header |-> header, claims |-> claims]

\* the claims after 'if nonce:'
claims_if_nonce(claims, nonce) == IF nonce = None THEN claims ELSE with_nonce(claims, nonce[1])

\* generate_dpop_proof without the ath claim
generate_dpop_proof_no_ath(http_method, url, access_token, nonce, iat_offset, jti) ==
    jwt_encode(proof_header,
               claims_if_nonce(proof_claims(http_method, url, iat_offset, jti), nonce))

\* generate_dpop_proof: header and claims of the ES256-signed proof; jti is the value
\* generate_jti() draws
generate_dpop_proof(http_method, url, access_token, nonce, iat_offset, jti) ==
    jwt_encode(proof_header,
               claims_if_nonce(IF access_token = None
                               THEN proof_claims(http_method, url, iat_offset, jti)
                               ELSE with_ath(proof_claims(http_method, url, iat_offset, jti),
                                             access_token[1]),
                               nonce))

\* a proof signed with another client's key
signed_with(proof, k) == [proof EXCEPT !.header.jwk = k, !.claims.jkt = Thumbprint(k)]

\* the jti of the proofs presented
Jti == "jti-1"

\* "http://internal/test/"
U_internal_test_slash ==
    <<"h", "t", "t", "p", ":", "/", "/", "i", "n", "t", "e", "r", "n", "a", "l", "/", "t", "e", "s", "t", "/">>

\* "http://INTERNAL/test"
U_INTERNAL_test ==
    <<"h", "t", "t", "p", ":", "/", "/", "I", "N", "T", "E", "R", "N", "A", "L", "/", "t", "e", "s", "t">>

\* URLs a client signs into htu: the direct URL, the public URL behind the proxy, and
\* near misses of the direct URL
HtuValues == {U_internal_test, U_public_test, U_internal_test_slash, U_INTERNAL_test}

\* decoded DPoP proofs presented with token t: the generator's proofs for every method
\* and URL, and for the direct and the public URL the proofs with another token's ath,
\* without ath, with an old iat, or signed by another client
ProofsFor(t) ==
    {generate_dpop_proof(m, u, Some(t), None, 0, Jti) : m \in Methods, u \in HtuValues}
    \cup {generate_dpop_proof(m, u, a, None, 0, Jti) :
              m \in Methods, u \in {U_internal_test, U_public_test}, a \in {Some(OtherToken), None}}
    \cup {generate_dpop_proof(m, u, Some(t), None, i, Jti) :
              m \in Methods, u \in {U_internal_test, U_public_test}, i \in IatOffsets}
    \cup {signed_with(generate_dpop_proof(m, u, Some(t), None, 0, Jti), k) :
              m \in Methods, u \in {U_internal_test, U_public_test}, k \in Keys}

\* DPoP header values: absent, not a JWT, or a decodable proof
DpopHeadersFor(t) == {None, Some([raw |-> "invalid.jwt.proof"])} \cup {Some(p) : p \in ProofsFor(t)}

\* Authorization header values, as the words of the header: absent, a scheme without
\* credential, or scheme and token
AuthHeaders ==
    {[authorization |-> None, dpop |-> None],
     [authorization |-> Some(<<"Bearer">>), dpop |-> None]}
    \cup UNION {{[authorization |-> Some(<<sch, t>>), dpop |-> d] :
                     sch \in {"Bearer", "DPoP"}, d \in DpopHeadersFor(t)} : t \in Tokens}

Forwarded == {<<None, None>>, <<Some(S_https), Some(S_api_example_com)>>}

\* "http://[internal/test": the URL of a request with the Host header '[internal'
U_bracket_test ==
    <<"h", "t", "t", "p", ":", "/", "/", "[", "i", "n", "t", "e", "r", "n", "a", "l", "/", "t", "e", "s", "t">>

\* Authorization headers of the requests with that URL: none, and a valid bearer token
BracketAuthHeaders ==
    {[authorization |-> None, dpop |-> None],
     [authorization |->
          Some(<<"Bearer", generate_token(Domain, "user_123", None, TRUE, extra_claims(None, None),
                                          "bearer")>>),
      dpop |-> None]}

AuthRequests ==
    {[method |-> m, url |-> U_internal_test, headers |-> MkHeaders(f[1], f[2], None, a)] :
        m \in Methods, f \in Forwarded, a \in AuthHeaders}
    \cup {[method |-> M_GET, url |-> U_bracket_test, headers |-> MkHeaders(f[1], f[2], None, a)] :
              f \in Forwarded, a \in BracketAuthHeaders}

\* the scopes argument of require_auth: None, a single string, a list
ScopeArgs ==
    {None, Some([str |-> S_read_data]), Some([list |-> <<>>]),
     Some([list |-> <<S_read_data, S_delete_data>>])}

----------------------------------------------------------------------------
(* The verifier behind api_client.verify_request: the orchestrator of section 4.5 and the
   proof validator of section 4.4 of the specification *)

\* an authentication error as the verifier raises it: status code, error code,
\* description and challenge headers
AuthError(kind, reason, status, code, desc, opts) ==
    [kind |-> kind, reason |-> reason, status_code |-> status, error_code |-> code,
     error_description |-> desc,
     headers |-> [www_authenticate |->
                     (IF opts.dpop_required THEN {} ELSE {"Bearer"})
                         \cup (IF opts.dpop_enabled THEN {"DPoP"} ELSE {})]]

\* step 1: the Authorization header as scheme and credential, None when missing or not
\* of that form
ParseAuthorization(headers) ==
    IF headers["authorization"] = None \/ Len(headers["authorization"][1]) # 2
    THEN None
    ELSE Some([scheme |-> headers["authorization"][1][1],
               credential |-> headers["authorization"][1][2]])

\* steps 1 and 2, which precede token verification: the error they raise, or None
RejectedBeforeVerification(opts, auth) ==
    IF auth = None
    THEN Some(AuthError("MissingCredential", "none", 400, "invalid_request",
                        "Missing or malformed Authorization header", opts))
    ELSE IF \/ (auth[1].scheme = "DPoP" /\ ~opts.dpop_enabled)
            \/ (auth[1].scheme = "Bearer" /\ opts.dpop_required)
    THEN Some(AuthError("UnsupportedScheme", "none", 400, "invalid_request",
                        "Authorization scheme not allowed by the DPoP configuration", opts))
    ELSE None

\* section 4.4: the first binding constraint the proof fails, or "ok"
DPoPProofValidator(proof, canonicalURL, httpMethod, accessToken, opts) ==
    IF proof.claims.htm # httpMethod THEN "method"
    ELSE IF proof.claims.htu # canonicalURL THEN "url"
    ELSE IF "ath" \notin DOMAIN proof.claims \/ proof.claims.ath # Sha256(accessToken) THEN "ath"
    ELSE IF \/ proof.claims.iat < Now - opts.dpop_iat_offset
            \/ proof.claims.iat > Now + opts.dpop_iat_leeway
         THEN "iat-window"
    ELSE IF /\ accessToken.claims.cnf # None
            /\ accessToken.claims.cnf[1].jkt # Thumbprint(proof.header.jwk)
         THEN "key-binding"
    ELSE "ok"

\* ProofBindingError with the status of an invalid token
ProofBindingError_401(opts, reason) ==
    IF reason = "ok"
    THEN None
    ELSE Some(AuthError("ProofBindingMismatch", reason, 401, "invalid_dpop_proof",
                        "DPoP proof does not match the request", opts))

\* step 5 once the proof is decoded: the error of a proof that fails a check of the
\* validator, status 400 and code invalid_dpop_proof as the tests of the mismatches assert
ProofBindingError(opts, reason) ==
    IF reason = "ok"
    THEN None
    ELSE Some(AuthError("ProofBindingMismatch", reason, 400, "invalid_dpop_proof",
                        "DPoP proof does not match the request", opts))

\* steps 4 and 5, which follow a successful token verification: the error they raise, or None
RejectedAfterVerification(opts, auth, headers, method, url) ==
    IF auth.scheme = "Bearer"
    THEN IF auth.credential.claims.cnf # None
         THEN Some(AuthError("ProofBindingMismatch", "key-binding", 401, "invalid_token",
                             "DPoP-bound token requires the DPoP scheme, not Bearer", opts))
         ELSE None
    ELSE IF headers["dpop"] = None
         THEN Some(AuthError("MissingProof", "none", 400, "invalid_request",
                             "DPoP scheme requires a DPoP proof header", opts))
    ELSE IF "raw" \in DOMAIN headers["dpop"][1]
         THEN Some(AuthError("MalformedProof", "none", 400, "invalid_dpop_proof",
                             "DPoP proof cannot be decoded", opts))
    ELSE ProofBindingError(opts, DPoPProofValidator(headers["dpop"][1], url,
                                                    upper(method), auth.credential, opts))

\* step 3, the external TokenVerifier: signature, issuer, audience, expiry. The tokens
\* here differ in issuer and expiry
TokenVerifies(token, domain) ==
    /\ token.claims.iss = Some(default_issuer(domain))
    /\ token.claims.exp # None
    /\ token.claims.exp[1] > 0

\* step 3, the external TokenVerifier: the error for a token it does not accept
UpstreamVerificationFailure(opts) ==
    AuthError("UpstreamVerificationFailure", "none", 401, "invalid_token",
              "Token verification failed", opts)

\* messages of exceptions that are not auth errors (a failed key fetch, ...)
ExceptionMessages == {"connection refused", "jwks: unexpected EOF"}

----------------------------------------------------------------------------
(* fastapi_plugin/utils.py and fast_api_client.py: the require_auth dependency *)

\* http_exception with the description in the place of the error code
http_exception_swapped(status_code, err, error_desc, headers) ==
    [kind |-> "Rejected",
     status_code |-> status_code,
     detail |-> [error |-> error_desc, error_description |-> err],
     headers |-> IF headers = None THEN [www_authenticate |-> {}] ELSE headers[1]]

\* http_exception: HTTPException(status_code, detail={error, error_description}, headers or {})
http_exception(status_code, err, error_desc, headers) ==
    [kind |-> "Rejected",
     status_code |-> status_code,
     detail |-> [error |-> err, error_description |-> error_desc],
     headers |-> IF headers = None THEN [www_authenticate |-> {}] ELSE headers[1]]

\* on_auth_error as if the auth error fell through to the generic handler
on_auth_error_generic(e) ==
    http_exception(400, "invalid_request", e.error_description, None)

\* on_auth_error without headers=e.get_headers()
on_auth_error_no_headers(e) ==
    http_exception(e.status_code, e.error_code, e.error_description, None)

\* on_auth_error that reports every auth error as an invalid token
on_auth_error_invalid_token(e) ==
    http_exception(401, "invalid_token", e.error_description, Some(e.headers))

\* except BaseAuthError as e, lines 74-80
on_auth_error(e) ==
    http_exception(e.status_code, e.error_code, e.error_description, Some(e.headers))

\* except Exception as e, lines 81-87; str(e) is the exception's message
on_exception(message) ==
    http_exception(400, "invalid_request", message, None)

\* one word and the rest, k the index of the first whitespace of s
SplitWordAt(s, k) == IF k = -1 THEN <<s, <<>>>> ELSE <<Prefix(s, k), Suffix(s, k)>>

RECURSIVE split_stripped(_)
\* str.split() of a string without leading whitespace
split_stripped(s) ==
    IF s = <<>>
    THEN <<>>
    ELSE <<SplitWordAt(s, FindAnyFrom(s, Whitespace, 0))[1]>>
             \o split_stripped(lstrip(SplitWordAt(s, FindAnyFrom(s, Whitespace, 0))[2], Whitespace))

\* str.split(): the whitespace-separated words
split(s) == split_stripped(lstrip(s, Whitespace))

\* validate_scopes with 'req in scope_str', a substring test, for 'req in token_scopes'
validate_scopes_substring(claims, required_scopes) ==
    IF claims.scope = None \/ claims.scope[1] = <<>>
    THEN FALSE
    ELSE \A i \in 1..Len(required_scopes) :
             \E k \in 1..(Len(claims.scope[1]) - Len(required_scopes[i]) + 1) :
                 SubSeq(claims.scope[1], k, k + Len(required_scopes[i]) - 1) = required_scopes[i]

\* validate_scopes
validate_scopes(claims, required_scopes) ==
    IF claims.scope = None \/ claims.scope[1] = <<>>
    THEN FALSE
    ELSE \A i \in 1..Len(required_scopes) :
             \E j \in 1..Len(split(claims.scope[1])) : split(claims.scope[1])[j] = required_scopes[i]

\* validate_scopes raises AttributeError: scope_str.split() (line 145) on a truthy scope
\* claim that is no string
validate_scopes_raises(claims) == claims.scope # None /\ claims.scope[1] \in NonStrings

\* an exception that leaves _dependency: no HTTPException is built
raised(exception, message) == [kind |-> "Raised", exception |-> exception, message |-> message]

\* scope_check without 'isinstance(scopes, str)': a string is iterated character by
\* character
scope_check_no_wrap(sc, claims) ==
    IF \/ sc = None
       \/ ("list" \in DOMAIN sc[1] /\ sc[1].list = <<>>)
       \/ ("str" \in DOMAIN sc[1] /\ sc[1].str = <<>>)
    THEN [kind |-> "Authenticated", claims |-> claims]
    ELSE IF validate_scopes_raises(claims)
    THEN raised("AttributeError", "'list' object has no attribute 'split'")
    ELSE IF validate_scopes(claims, IF "str" \in DOMAIN sc[1]
                                    THEN [i \in 1..Len(sc[1].str) |-> <<sc[1].str[i]>>]
                                    ELSE sc[1].list)
    THEN [kind |-> "Authenticated", claims |-> claims]
    ELSE http_exception(403, "insufficient_scope", "Insufficient scopes", None)

\* lines 89-100: the scope check after a successful verification, and the return; the
\* check is outside the try block, so an exception of validate_scopes leaves _dependency
scope_check(sc, claims) ==
    IF \/ sc = None
       \/ ("list" \in DOMAIN sc[1] /\ sc[1].list = <<>>)
       \/ ("str" \in DOMAIN sc[1] /\ sc[1].str = <<>>)
    THEN [kind |-> "Authenticated", claims |-> claims]
    ELSE IF validate_scopes_raises(claims)
    THEN raised("AttributeError", "'list' object has no attribute 'split'")
    ELSE IF validate_scopes(claims, IF "str" \in DOMAIN sc[1] THEN <<sc[1].str>> ELSE sc[1].list)
    THEN [kind |-> "Authenticated", claims |-> claims]
    ELSE http_exception(403, "insufficient_scope", "Insufficient scopes", None)

\* line 70: headers=dict(request.headers)
verify_request_headers(req) == req.headers

\* http_method as the method of the route's usual requests
verify_request_http_method_get(req) == M_GET

\* line 71: http_method=request.method
verify_request_http_method(req) == req.method

\* http_url as the direct URL of the request
verify_request_http_url_direct(app, req) == req.url

\* line 72: http_url=get_canonical_url(request)
verify_request_http_url(app, req) == get_canonical_url(app, req)

Auth == ParseAuthorization(verify_request_headers(request))

Init ==
    /\ app_state \in {[trust_proxy |-> None], [trust_proxy |-> Some(TRUE)]}
    /\ config \in Configs
    /\ options = Auth0FastAPI_init(config)
    /\ request \in AuthRequests
    /\ scopes \in ScopeArgs
    /\ pc = "start"
    /\ canonical = NoComponents
    /\ http_url = <<>>
    /\ verified = None
    /\ error = None
    /\ outcome = None
    /\ verify_calls = 0
    /\ inflight = <<>>
    /\ call = None
    /\ result = None

\* _dependency up to an error raised by verify_request before it verifies the token:
\* get_canonical_url, verify_request steps 1-2, except BaseAuthError
RejectBeforeVerification ==
    /\ pc = "start"
    /\ ~get_canonical_url_raises(app_state, request)
    /\ RejectedBeforeVerification(options, Auth) # None
    /\ canonical' = canonical_components(app_state, request)
    /\ http_url' = verify_request_http_url(app_state, request)
    /\ error' = RejectedBeforeVerification(options, Auth)
    /\ outcome' = Some(on_auth_error(error'[1]))
    /\ pc' = "done"
    /\ UNCHANGED <<inflight, call, result, app_state, config, options, request, scopes, verified, verify_calls>>

\* _dependency up to the suspension of verify_request in the external TokenVerifier
AwaitTokenVerifier ==
    /\ pc = "start"
    /\ ~get_canonical_url_raises(app_state, request)
    /\ RejectedBeforeVerification(options, Auth) = None
    /\ canonical' = canonical_components(app_state, request)
    /\ http_url' = verify_request_http_url(app_state, request)
    /\ verify_calls' = verify_calls + 1
    /\ pc' = "awaiting"
    /\ UNCHANGED <<inflight, call, result, app_state, config, options, request, scopes, verified, error, outcome>>

\* TokenRejected that starts the request over after the error
TokenRejected_retry ==
    /\ pc = "awaiting"
    /\ ~TokenVerifies(Auth[1].credential, Domain)
    /\ error' = Some(UpstreamVerificationFailure(options))
    /\ pc' = "start"
    /\ UNCHANGED <<inflight, call, result, app_state, config, options, request, scopes, canonical, http_url, verified,
                   outcome, verify_calls>>

\* the TokenVerifier rejects the token: verify_request raises, except BaseAuthError
TokenRejected ==
    /\ pc = "awaiting"
    /\ ~TokenVerifies(Auth[1].credential, Domain)
    /\ error' = Some(UpstreamVerificationFailure(options))
    /\ outcome' = Some(on_auth_error(error'[1]))
    /\ pc' = "done"
    /\ UNCHANGED <<inflight, call, result, app_state, config, options, request, scopes, canonical, http_url, verified,
                   verify_calls>>

\* the TokenVerifier accepts the token, steps 4-5 raise: except BaseAuthError
RejectAfterVerification ==
    /\ pc = "awaiting"
    /\ TokenVerifies(Auth[1].credential, Domain)
    /\ RejectedAfterVerification(options, Auth[1], verify_request_headers(request),
                                 verify_request_http_method(request), http_url) # None
    /\ verified' = Some(Auth[1].credential.claims)
    /\ error' = RejectedAfterVerification(options, Auth[1], verify_request_headers(request),
                                 verify_request_http_method(request), http_url)
    /\ outcome' = Some(on_auth_error(error'[1]))
    /\ pc' = "done"
    /\ UNCHANGED <<inflight, call, result, app_state, config, options, request, scopes, canonical, http_url, verify_calls>>

\* verify_request returns the claims: scope check and return, lines 89-100
ClaimsReturned ==
    /\ pc = "awaiting"
    /\ TokenVerifies(Auth[1].credential, Domain)
    /\ RejectedAfterVerification(options, Auth[1], verify_request_headers(request),
                                 verify_request_http_method(request), http_url) = None
    /\ verified' = Some(Auth[1].credential.claims)
    /\ outcome' = Some(scope_check(scopes, verified'[1]))
    /\ pc' = "done"
    /\ UNCHANGED <<inflight, call, result, app_state, config, options, request, scopes, canonical, http_url, error,
                   verify_calls>>

\* get_canonical_url raises while the arguments of verify_request are evaluated, inside
\* the try block: except Exception, lines 81-87
ResolverRaises ==
    /\ pc = "start"
    /\ get_canonical_url_raises(app_state, request)
    /\ error' = Some([kind |-> "UnexpectedFailure", message |-> "Invalid IPv6 URL"])
    /\ outcome' = Some(on_exception(error'[1].message))
    /\ pc' = "done"
    /\ UNCHANGED <<inflight, call, result, app_state, config, options, request, scopes, canonical, http_url, verified,
                   verify_calls>>

\* verify_request raises something that is no auth error: except Exception, lines 81-87
UnexpectedException ==
    /\ pc = "awaiting"
    /\ \E m \in ExceptionMessages :
          /\ error' = Some([kind |-> "UnexpectedFailure", message |-> m])
          /\ outcome' = Some(on_exception(m))
    /\ pc' = "done"
    /\ UNCHANGED <<inflight, call, result, app_state, config, options, request, scopes, canonical, http_url, verified,
                   verify_calls>>

Next ==
    \/ RejectBeforeVerification
    \/ AwaitTokenVerifier
    \/ TokenRejected
    \/ RejectAfterVerification
    \/ ClaimsReturned
    \/ ResolverRaises
    \/ UnexpectedException

Spec == Init /\ [][Next]_vars

----------------------------------------------------------------------------
(* Specification of the scope check alone: validate_scopes applied to claims and a list of
   required scopes *)

\* "read:database"
S_read_database == <<"r", "e", "a", "d", ":", "d", "a", "t", "a", "b", "a", "s", "e">>

\* "read"
S_read == <<"r", "e", "a", "d">>

\* "write:data"
S_write_data == <<"w", "r", "i", "t", "e", ":", "d", "a", "t", "a">>

\* " read:data\t write:data ": items separated and surrounded by runs of whitespace
S_scope_padded == <<" ", "r", "e", "a", "d", ":", "d", "a", "t", "a", "\t", " ", "w", "r", "i", "t", "e", ":", "d", "a", "t", "a", " ">>

\* "  "
S_blank == <<" ", " ">>

\* values of the scope claim: missing, empty, blank, one item, several items
ScopeClaimValues ==
    {None, Some(<<>>), Some(S_blank), Some(S_read_data), Some(S_read_database),
     Some(S_scope_read_write), Some(S_scope_padded)}

\* scopes a route can require
RequiredItems == {S_read_data, S_write_data, S_delete_data, S_read}

\* bound on the number of required scopes
MaxRequired == 2

\* required_scopes: lists of at most MaxRequired scopes
RequiredLists == UNION {[1..n -> RequiredItems] : n \in 0..MaxRequired}

InitScopes ==
    /\ app_state = [trust_proxy |-> None]
    /\ config = [dpop_enabled |-> TRUE, dpop_required |-> FALSE]
    /\ options = Auth0FastAPI_init(config)
    /\ request = [method |-> M_GET, url |-> U_internal_test,
                  headers |-> MkHeaders(None, None, None, NoAuthHeaders)]
    /\ \E sc \in ScopeClaimValues, r \in RequiredLists :
          /\ verified = Some(generate_token(Domain, "user_123", None, TRUE, extra_claims(None, sc),
                                         "bearer").claims)
          /\ scopes = Some([list |-> r])
    /\ pc = "start"
    /\ canonical = NoComponents
    /\ http_url = <<>>
    /\ error = None
    /\ outcome = None
    /\ verify_calls = 0
    /\ inflight = <<>>
    /\ call = None
    /\ result = None

\* one call of validate_scopes(claims, required_scopes)
ValidateScopes ==
    /\ pc = "start"
    /\ outcome' = Some([kind |-> "validate_scopes",
                        result |-> validate_scopes(verified[1], scopes[1].list)])
    /\ pc' = "validated"
    /\ UNCHANGED <<inflight, call, result, app_state, config, options, request, scopes, canonical, http_url, verified,
                   error, verify_calls>>

NextScopes == ValidateScopes

SpecScopes == InitScopes /\ [][NextScopes]_vars

----------------------------------------------------------------------------
(* Specification of concurrent requests: several requests through one Auth0FastAPI
   instance, each a coroutine of _dependency with its own locals, interleaved at the
   await of verify_request *)

\* bound on the number of requests in flight
MaxInFlight == 2

\* a request as it enters _dependency, with the scopes of its route: the coroutine's locals
arrived(req, sc) ==
    [request |-> req, scopes |-> sc, pc |-> "start", http_url |-> <<>>, verified |-> None,
     error |-> None, outcome |-> None]

\* the coroutine ends with an exception the except Exception branch maps, lines 81-87
failed_unexpectedly(r, message) ==
    [r EXCEPT !.pc = "done",
              !.error = Some([kind |-> "UnexpectedFailure", message |-> message]),
              !.outcome = Some(on_exception(message))]

\* the coroutine ends with an auth error of verify_request, lines 74-80
failed_auth(r, e) ==
    [r EXCEPT !.pc = "done", !.error = Some(e), !.outcome = Some(on_auth_error(e))]

\* _dependency from its start to the await of the TokenVerifier inside verify_request, or
\* to the error raised before it
begun(app, opts, r) ==
    IF get_canonical_url_raises(app, r.request)
    THEN failed_unexpectedly(r, "Invalid IPv6 URL")
    ELSE IF RejectedBeforeVerification(
                opts, ParseAuthorization(verify_request_headers(r.request))) # None
    THEN failed_auth([r EXCEPT !.http_url = verify_request_http_url(app, r.request)],
                     RejectedBeforeVerification(
                         opts, ParseAuthorization(verify_request_headers(r.request)))[1])
    ELSE [r EXCEPT !.pc = "awaiting", !.http_url = verify_request_http_url(app, r.request)]

\* the claims verify_request returns: scope check and return, lines 89-100
returned_claims(r, claims) ==
    [r EXCEPT !.pc = "done", !.verified = Some(claims),
              !.outcome = Some(scope_check(r.scopes, claims))]

\* _dependency from the await to its end, the TokenVerifier having accepted the token:
\* auth holds scheme and credential, url the http_url passed to verify_request
resumed_verified(opts, r, auth, url) ==
    IF RejectedAfterVerification(opts, auth, verify_request_headers(r.request),
                                 verify_request_http_method(r.request), url) # None
    THEN failed_auth([r EXCEPT !.verified = Some(auth.credential.claims)],
                     RejectedAfterVerification(opts, auth, verify_request_headers(r.request),
                                               verify_request_http_method(r.request), url)[1])
    ELSE returned_claims(r, auth.credential.claims)

\* _dependency from the await to its end; exc is the exception of the verifier, if any
resumed(opts, r, url, exc) ==
    IF exc # None
    THEN failed_unexpectedly(r, exc[1])
    ELSE IF ~TokenVerifies(ParseAuthorization(verify_request_headers(r.request))[1].credential,
                           Domain)
    THEN failed_auth(r, UpstreamVerificationFailure(opts))
    ELSE resumed_verified(opts, r, ParseAuthorization(verify_request_headers(r.request))[1], url)

\* the http_url argument as if the first request's value were kept for all requests
local_http_url_first(fl, i) == fl[1].http_url

\* the http_url argument a suspended call of verify_request holds: the value its own
\* coroutine computed, line 72
local_http_url(fl, i) == fl[i].http_url

\* tokens of the concurrent requests
T_scoped ==
    generate_token(Domain, "user_123", None, TRUE, extra_claims(None, Some(S_scope_read_write)),
                   "bearer")
T_no_issuer ==
    generate_token(Domain, "user_123", Some([bool |-> FALSE]), TRUE, extra_claims(None, None),
                   "bearer")
T_bound ==
    generate_dpop_bound_token(Domain, "user_456", None, TRUE, extra_claims(None, None), None)

\* a request with scheme, token and proof
credentialed(method, url, fwd, scheme, token, proof) ==
    [method |-> method, url |-> url,
     headers |-> MkHeaders(fwd[1], fwd[2], None,
                           [authorization |-> Some(<<scheme, token>>), dpop |-> proof])]

\* the requests interleaved, each with the scopes of its route: bearer requests that are
\* authenticated, lack a scope or carry a rejected token, DPoP requests on a direct
\* connection and behind a proxy, a request without credential, a request whose URL
\* cannot be parsed
ConcCases ==
    {<<credentialed(M_GET, U_internal_test, <<None, None>>, "Bearer", T_scoped, None), None>>,
     <<credentialed(M_GET, U_internal_test, <<None, None>>, "Bearer", T_scoped, None),
       Some([list |-> <<S_read_data, S_delete_data>>])>>,
     <<credentialed(M_GET, U_internal_test, <<None, None>>, "Bearer", T_no_issuer, None), None>>,
     <<credentialed(M_GET, U_internal_test, <<None, None>>, "DPoP", T_bound,
                    Some(generate_dpop_proof(M_GET, U_internal_test, Some(T_bound), None, 0, Jti))),
       None>>,
     <<credentialed(M_POST, U_internal_test, <<Some(S_https), Some(S_api_example_com)>>, "DPoP",
                    T_bound,
                    Some(generate_dpop_proof(M_POST, U_public_test, Some(T_bound), None, 0, Jti))),
       None>>,
     <<[method |-> M_GET, url |-> U_internal_test,
        headers |-> MkHeaders(None, None, None, NoAuthHeaders)], None>>,
     <<[method |-> M_GET, url |-> U_bracket_test,
        headers |-> MkHeaders(None, None, None, NoAuthHeaders)], None>>}

InitConc ==
    /\ app_state \in {[trust_proxy |-> None], [trust_proxy |-> Some(TRUE)]}
    /\ config \in Configs
    /\ options = Auth0FastAPI_init(config)
    /\ request = [method |-> M_GET, url |-> U_internal_test,
                  headers |-> MkHeaders(None, None, None, NoAuthHeaders)]
    /\ scopes = None
    /\ pc = "start"
    /\ canonical = NoComponents
    /\ http_url = <<>>
    /\ verified = None
    /\ error = None
    /\ outcome = None
    /\ verify_calls = 0
    /\ inflight \in [1..MaxInFlight -> {arrived(c[1], c[2]) : c \in ConcCases}]
    /\ call = None
    /\ result = None

ConcUnchanged ==
    UNCHANGED <<call, result, app_state, config, options, request, scopes, pc, canonical,
                http_url, verified, error, outcome, verify_calls>>

\* request i runs from its start to the await of the TokenVerifier, or to an early error
Begin(i) ==
    /\ inflight[i].pc = "start"
    /\ inflight' = [inflight EXCEPT ![i] = begun(app_state, options, inflight[i])]
    /\ ConcUnchanged

\* the TokenVerifier answers request i (or fails), and request i runs to its end
Resume(i) ==
    /\ inflight[i].pc = "awaiting"
    /\ \E exc \in {None} \cup {Some(m) : m \in ExceptionMessages} :
          inflight' = [inflight EXCEPT
                           ![i] = resumed(options, inflight[i], local_http_url(inflight, i), exc)]
    /\ ConcUnchanged

NextConc == \E i \in 1..MaxInFlight : Begin(i) \/ Resume(i)

SpecConc == InitConc /\ [][NextConc]_vars

----------------------------------------------------------------------------
(* Specification of the generators of the test utilities: calculate_jwk_thumbprint,
   generate_token, generate_dpop_bound_token and generate_dpop_proof, each applied once *)

\* the members of the test key, and the four the thumbprint is made of
JwkMembers == {"kty", "alg", "use", "kid", "crv", "x", "y", "d"}
ThumbprintMembers == {"crv", "kty", "x", "y"}

\* the dict d without the keys outside keys
without_others(d, keys) == SelectSeq(d, LAMBDA item : item[1] \in keys)

\* the items of d in every order
reordered(d) == {[i \in 1..Len(d) |-> d[p[i]]] : p \in Permutations(1..Len(d))}

\* the items of d in reverse order
reversed(d) == [i \in 1..Len(d) |-> d[Len(d) + 1 - i]]

\* the public key of another client as a dict
OTHER_DPOP_JWK == <<<<"kty", "EC">>, <<"crv", "P-256">>, <<"x", "other-x">>, <<"y", "other-y">>>>

\* jwk_dict arguments: the test key with every subset of its members removed, the four
\* thumbprint members of two keys in every order, and the test keys reversed
JwkDicts ==
    {without_others(PRIVATE_DPOP_JWK, keys) : keys \in SUBSET JwkMembers}
    \cup reordered(without_others(PUBLIC_DPOP_JWK, ThumbprintMembers))
    \cup reordered(OTHER_DPOP_JWK)
    \cup {reversed(PRIVATE_DPOP_JWK), reversed(PUBLIC_DPOP_JWK)}

\* issuer arguments: None, False, True, a string, the empty string
GenIssuerArgs == IssuerArgs \cup {Some([bool |-> TRUE]), Some([str |-> <<>>])}

\* claims arguments: without and with a 'sub' and a 'scope' entry
GenClaimsArgs == {extra_claims(sub, sc) : sub \in {None, Some("admin")}, sc \in ScopeClaims}

\* user_id arguments
UserIds == {"user_123", ""}

\* "get"
M_get == <<"g", "e", "t">>

\* calls of the generators
ThumbprintCalls == {[fn |-> "calculate_jwk_thumbprint", jwk_dict |-> d] : d \in JwkDicts}

TokenCalls ==
    {[fn |-> "generate_token", domain |-> Domain, user_id |-> u, issuer |-> i, exp |-> e,
      claims |-> c, token_type |-> t] :
        u \in UserIds, i \in GenIssuerArgs, e \in BOOLEAN, c \in GenClaimsArgs,
        t \in {"bearer", "dpop"}}

BoundTokenCalls ==
    {[fn |-> "generate_dpop_bound_token", domain |-> Domain, user_id |-> u, issuer |-> i,
      exp |-> e, claims |-> c, cnf_jkt |-> j] :
        u \in UserIds, i \in GenIssuerArgs, e \in BOOLEAN, c \in GenClaimsArgs,
        j \in {None, Some(Thumbprint(OTHER_JWK))}}

ProofCalls ==
    {[fn |-> "generate_dpop_proof", http_method |-> m, http_url |-> u, access_token |-> a,
      nonce |-> n, iat_offset |-> i, jti |-> j] :
        m \in {M_GET, M_POST, M_get}, u \in {U_internal_test, U_public_test, U_params_fragment},
        a \in {None, Some(OtherToken)}, n \in {None, Some("nonce-1")}, i \in IatOffsets,
        j \in {"jti-1", "jti-2"}}

InitGen ==
    /\ app_state = [trust_proxy |-> None]
    /\ config = [dpop_enabled |-> TRUE, dpop_required |-> FALSE]
    /\ options = Auth0FastAPI_init(config)
    /\ request = [method |-> M_GET, url |-> U_internal_test,
                  headers |-> MkHeaders(None, None, None, NoAuthHeaders)]
    /\ scopes = None
    /\ pc = "start"
    /\ canonical = NoComponents
    /\ http_url = <<>>
    /\ verified = None
    /\ error = None
    /\ outcome = None
    /\ verify_calls = 0
    /\ inflight = <<>>
    /\ call \in ThumbprintCalls \cup TokenCalls \cup BoundTokenCalls \cup ProofCalls
    /\ result = None

GenUnchanged ==
    UNCHANGED <<inflight, call, app_state, config, options, request, scopes, canonical, http_url,
                verified, error, outcome, verify_calls>>

\* one call of calculate_jwk_thumbprint(jwk_dict)
CalculateThumbprint ==
    /\ pc = "start"
    /\ call.fn = "calculate_jwk_thumbprint"
    /\ result' = Some(calculate_jwk_thumbprint(call.jwk_dict))
    /\ pc' = "returned"
    /\ GenUnchanged

\* one call of generate_token
GenerateToken ==
    /\ pc = "start"
    /\ call.fn = "generate_token"
    /\ result' = Some(generate_token(call.domain, call.user_id, call.issuer, call.exp,
                                     call.claims, call.token_type))
    /\ pc' = "returned"
    /\ GenUnchanged

\* one call of generate_dpop_bound_token
GenerateBoundToken ==
    /\ pc = "start"
    /\ call.fn = "generate_dpop_bound_token"
    /\ result' = Some(generate_dpop_bound_token(call.domain, call.user_id, call.issuer,
                                                call.exp, call.claims, call.cnf_jkt))
    /\ pc' = "returned"
    /\ GenUnchanged

\* one call of generate_dpop_proof
GenerateProof ==
    /\ pc = "start"
    /\ call.fn = "generate_dpop_proof"
    /\ result' = Some(generate_dpop_proof(call.http_method, call.http_url, call.access_token,
                                          call.nonce, call.iat_offset, call.jti))
    /\ pc' = "returned"
    /\ GenUnchanged

NextGen ==
    \/ CalculateThumbprint
    \/ GenerateToken
    \/ GenerateBoundToken
    \/ GenerateProof

SpecGen == InitGen /\ [][NextGen]_vars

----------------------------------------------------------------------------
(* Specification of the resolver alone: get_canonical_url applied to one request *)

InitUrl ==
    /\ app_state \in AppStates
    /\ config = [dpop_enabled |-> TRUE, dpop_required |-> FALSE]
    /\ options = Auth0FastAPI_init(config)
    /\ request \in UrlRequests
    /\ scopes = None
    /\ pc = "start"
    /\ canonical = NoComponents
    /\ http_url = <<>>
    /\ verified = None
    /\ error = None
    /\ outcome = None
    /\ verify_calls = 0
    /\ inflight = <<>>
    /\ call = None
    /\ result = None

\* one call of get_canonical_url(request)
ResolveUrl ==
    /\ pc = "start"
    /\ canonical' = canonical_components(app_state, request)
    /\ http_url' = get_canonical_url(app_state, request)
    /\ pc' = "resolved"
    /\ UNCHANGED <<inflight, call, result, app_state, config, options, request, scopes, verified, error, outcome,
                   verify_calls>>

NextUrl == ResolveUrl

SpecUrl == InitUrl /\ [][NextUrl]_vars

----------------------------------------------------------------------------
(* Vocabulary of the resolver's properties *)

Resolved == pc = "resolved"

TrustEnabled == app_state.trust_proxy = Some(TRUE)

\* the direct request's components
Direct == urlparse(request.url)

FwdProto == request.headers["x-forwarded-proto"]
FwdHost == request.headers["x-forwarded-host"]
FwdPrefix == request.headers["x-forwarded-prefix"]

ContainsSub(s, sub) ==
    \E i \in 1..(Len(s) - Len(sub) + 1) : SubSeq(s, i, i + Len(sub) - 1) = sub

\* s without its leading and trailing whitespace, stated by what the result is
Trimmed(s) ==
    IF \A i \in 1..Len(s) : s[i] \in Whitespace
    THEN <<>>
    ELSE LET a == CHOOSE i \in 1..Len(s) :
                      s[i] \notin Whitespace /\ \A j \in 1..(i - 1) : s[j] \in Whitespace
             b == CHOOSE i \in 1..Len(s) :
                      s[i] \notin Whitespace /\ \A j \in (i + 1)..Len(s) : s[j] \in Whitespace
         IN  SubSeq(s, a, b)

\* the part of s left of its first comma (all of s when it has none)
LeftOfFirstComma(s) ==
    LET n == CHOOSE k \in 0..Len(s) :
                 /\ \A j \in 1..k : s[j] # ","
                 /\ (k = Len(s) \/ s[k + 1] = ",")
    IN  SubSeq(s, 1, n)

\* s without its trailing slashes
WithoutTrailingSlash(s) ==
    LET n == CHOOSE k \in 0..Len(s) :
                 /\ \A j \in (k + 1)..Len(s) : s[j] = "/"
                 /\ (k = 0 \/ s[k] # "/")
    IN  SubSeq(s, 1, n)

\* the url up to, and without, its first '#'
WithoutFragment(url) ==
    IF \E i \in 1..Len(url) : url[i] = "#"
    THEN SubSeq(url, 1, (CHOOSE i \in 1..Len(url) : url[i] = "#" /\ \A j \in 1..(i - 1) : url[j] # "#") - 1)
    ELSE url

\* the query a URL string carries: what lies between its first '?' and its first '#'
QueryOf(url) ==
    LET u == WithoutFragment(url)
    IN  IF \E i \in 1..Len(u) : u[i] = "?"
        THEN SubSeq(u, (CHOOSE i \in 1..Len(u) : u[i] = "?" /\ \A j \in 1..(i - 1) : u[j] # "?") + 1, Len(u))
        ELSE <<>>

HasTraversalSegment(p) ==
    \E i \in 1..(Len(p) - 1) :
        /\ p[i] = "." /\ p[i + 1] = "."
        /\ (i = 1 \/ p[i - 1] = "/")
        /\ (i + 1 = Len(p) \/ p[i + 2] = "/")

\* the prefix values the specification says must be treated as absent
RejectedPrefix(p) ==
    \/ HasTraversalSegment(p)
    \/ (Len(p) >= 2 /\ p[1] = "/" /\ p[2] = "/")
    \/ \E i \in 1..Len(p) : p[i] = ":" \/ p[i] = NUL
    \/ ContainsSub(lower(p), <<"%", "2", "e", "%", "2", "e">>)

\* a forwarded prefix is present, non-empty after trimming and not one of the rejected shapes
AcceptedPrefix ==
    /\ FwdPrefix # None
    /\ Trimmed(FwdPrefix[1]) # <<>>
    /\ ~RejectedPrefix(Trimmed(FwdPrefix[1]))

----------------------------------------------------------------------------
(* Properties of the resolver *)

\* C1: with proxy trust disabled (trust_proxy False or never set) the canonical URL is the
\* direct URL without its fragment, whatever the X-Forwarded-* headers are; two requests
\* with the same direct URL therefore get the same string.
C1_TrustGating ==
    (Resolved /\ ~TrustEnabled) => http_url = WithoutFragment(request.url)

C1_Witness ==
    /\ Resolved
    /\ app_state.trust_proxy = None
    /\ FwdProto = Some(S_https)
    /\ FwdHost = Some(S_api_example_com)
    /\ FwdPrefix = Some(S_api_v1)
    /\ http_url = U_internal_test

\* C3: with proxy trust enabled, an X-Forwarded-Prefix with a '..' segment, a leading '//',
\* a colon, a null byte or '%2e%2e' is treated as absent: the canonical path is the direct path.
C3_PrefixInjectionRejected ==
    (Resolved /\ TrustEnabled /\ FwdPrefix # None /\ RejectedPrefix(Trimmed(FwdPrefix[1])))
        => canonical.path = Direct.path

\* C4: with proxy trust enabled the canonical scheme is the direct scheme, 'http' or 'https';
\* any other X-Forwarded-Proto value is ignored.
C4_SchemeWhitelist ==
    (Resolved /\ TrustEnabled) => canonical.scheme \in {Direct.scheme, S_http, S_https}

\* C5: with proxy trust enabled and X-Forwarded-Host present, the canonical host is the part
\* of the header left of the first comma, trimmed and otherwise verbatim; when that part is
\* empty the direct host is kept.
C5_ForwardedHost ==
    (Resolved /\ TrustEnabled /\ FwdHost # None)
        => LET first == Trimmed(LeftOfFirstComma(FwdHost[1]))
           IN  canonical.netloc = IF first = <<>> THEN Direct.netloc ELSE first

C5_Witness ==
    /\ Resolved /\ TrustEnabled
    /\ FwdHost = Some(<<" ">> \o S_a_com_8443 \o <<" ">> \o S_hop)
    /\ canonical.netloc = S_a_com_8443

C5_WitnessEmpty ==
    /\ Resolved /\ TrustEnabled
    /\ FwdHost = Some(<<" ", " ">> \o S_hop)
    /\ canonical.netloc = Direct.netloc

\* values substituted for the other two headers when checking that a component depends on
\* its own header only
Probes == {None, Some(S_api_example_com), Some(<<" ">> \o S_dotdot_admin \o <<"/">>)}

WithHeader(req, name, v) == [req EXCEPT !.headers[name] = v]

\* C6: with proxy trust enabled scheme, host and path are overridden independently: a
\* component whose header is absent is the direct one, a component does not change when the
\* other two headers change, and direct http://internal/test with Proto=https and
\* Host=api.example.com gives exactly https://api.example.com/test.
C6_IndependentOverride ==
    (Resolved /\ TrustEnabled) =>
        /\ FwdProto = None => canonical.scheme = Direct.scheme
        /\ FwdHost = None => canonical.netloc = Direct.netloc
        /\ FwdPrefix = None => canonical.path = Direct.path
        /\ \A v \in Probes :
              /\ canonical_components(app_state, WithHeader(request, "x-forwarded-host", v)).scheme = canonical.scheme
              /\ canonical_components(app_state, WithHeader(request, "x-forwarded-prefix", v)).scheme = canonical.scheme
              /\ canonical_components(app_state, WithHeader(request, "x-forwarded-proto", v)).netloc = canonical.netloc
              /\ canonical_components(app_state, WithHeader(request, "x-forwarded-prefix", v)).netloc = canonical.netloc
              /\ canonical_components(app_state, WithHeader(request, "x-forwarded-proto", v)).path = canonical.path
              /\ canonical_components(app_state, WithHeader(request, "x-forwarded-host", v)).path = canonical.path
        /\ (request.url = U_internal_test /\ FwdProto = Some(S_https)
                /\ FwdHost = Some(S_api_example_com) /\ FwdPrefix = None)
              => http_url = U_public_test
        /\ (request.url = U_internal_test /\ FwdProto = Some(S_https)
                /\ FwdHost = None /\ FwdPrefix = None)
              => http_url = S_https \o <<":", "/", "/">> \o S_internal \o S_test

C6_Witness ==
    /\ Resolved /\ TrustEnabled
    /\ request.url = U_internal_test
    /\ FwdProto = Some(S_https) /\ FwdHost = None /\ FwdPrefix = Some(S_api_v1)
    /\ canonical.scheme = S_https /\ canonical.netloc = S_internal
    /\ canonical.path = S_api_v1_test

\* C7: with proxy trust enabled and an accepted non-empty X-Forwarded-Prefix, the canonical
\* path is the prefix without trailing slash followed by the direct path, with no double
\* slash at the join: '/api/v1' and '/api/v1/' both turn '/test' into '/api/v1/test'.
C7_PrefixPrepended ==
    (Resolved /\ TrustEnabled /\ AcceptedPrefix) =>
        LET pre == WithoutTrailingSlash(Trimmed(FwdPrefix[1]))
        IN  /\ canonical.path = pre \o Direct.path
            /\ (pre # <<>> => SubSeq(canonical.path, Len(pre), Len(pre) + 1) # <<"/", "/">>)
            /\ (Direct.path = S_test /\ Trimmed(FwdPrefix[1]) \in {S_api_v1, S_api_v1 \o <<"/">>})
                  => canonical.path = S_api_v1_test

C7_Witness ==
    /\ Resolved /\ TrustEnabled
    /\ FwdPrefix = Some(S_api_v1 \o <<"/">>)
    /\ Direct.path = S_test
    /\ canonical.path = S_api_v1_test

\* C8: with proxy trust enabled the path of the canonical URL always starts with exactly
\* one '/'; a prefix without leading slash is given one.
C8_SingleLeadingSlash ==
    (Resolved /\ TrustEnabled) =>
        LET p == urlparse(http_url).path
        IN  /\ p # <<>>
            /\ p[1] = "/"
            /\ (Len(p) >= 2 => p[2] # "/")

\* C9: for either trust setting the canonical URL carries the direct query unchanged and has
\* no fragment; no forwarded header can alter the query or introduce a fragment.
C9_QueryKeptNoFragment ==
    Resolved =>
        /\ QueryOf(http_url) = Direct.query
        /\ \A i \in 1..Len(http_url) : http_url[i] # "#"


----------------------------------------------------------------------------
(* Claims on the authentication flow, checked under Spec *)

Done == pc = "done"

SchemeIs(sch) == Auth # None /\ Auth[1].scheme = sch

\* the token presented carries cnf.jkt
BoundToken == Auth # None /\ Auth[1].credential.claims.cnf # None

\* the claims the TokenVerifier returned carry cnf.jkt
VerifiedBound == verified # None /\ verified[1].cnf # None

Rejected == outcome # None /\ outcome[1].kind = "Rejected"

\* C2: a token whose verified claims carry cnf.jkt, presented with the scheme Bearer, is
\* never authenticated: the request ends Rejected, the error raised is
\* ProofBindingMismatch(key-binding) and the response carries that error's status and
\* code, whatever dpop_enabled and dpop_required are; a bound token presented as Bearer
\* ends Rejected also where its claims were never verified.
C2_BoundBearerRejected ==
    /\ (Done /\ SchemeIs("Bearer") /\ BoundToken) => Rejected
    /\ (Done /\ SchemeIs("Bearer") /\ VerifiedBound) =>
           /\ error # None
           /\ error[1].kind = "ProofBindingMismatch"
           /\ error[1].reason = "key-binding"
           /\ outcome[1].status_code = error[1].status_code
           /\ outcome[1].detail.error = error[1].error_code
           /\ outcome[1].detail.error_description = error[1].error_description

\* a bound token with a valid signature, sent as Bearer to an application with DPoP
\* support disabled and no scope requirement, has been rejected for key binding
C2_Witness ==
    /\ Done
    /\ ~config.dpop_enabled
    /\ ~config.dpop_required
    /\ SchemeIs("Bearer")
    /\ VerifiedBound
    /\ scopes = None
    /\ Rejected
    /\ error[1].reason = "key-binding"
    /\ outcome[1].status_code = 401

\* the request's scheme is one the constructor's configuration does not allow
PolicyViolation ==
    \/ SchemeIs("DPoP") /\ ~config.dpop_enabled
    \/ SchemeIs("Bearer") /\ config.dpop_required

\* C10: scheme policy is enforced before token verification: a request with scheme DPoP
\* when dpop_enabled is False, or with scheme Bearer when dpop_required is True, never
\* reaches the TokenVerifier (no verification is started, at any point of the request),
\* and ends Rejected with status 400 and error invalid_request, for valid and invalid
\* tokens alike.
C10_PolicyBeforeVerification ==
    PolicyViolation =>
        /\ verify_calls = 0
        /\ pc # "awaiting"
        /\ verified = None
        /\ Done =>
              /\ Rejected
              /\ outcome[1].status_code = 400
              /\ outcome[1].detail.error = "invalid_request"

\* a valid Bearer token sent to an application that requires DPoP has been rejected
C10_Witness ==
    /\ Done
    /\ config.dpop_required
    /\ config.dpop_enabled
    /\ SchemeIs("Bearer")
    /\ TokenVerifies(Auth[1].credential, Domain)
    /\ verify_calls = 0
    /\ outcome[1].status_code = 400

\* a valid DPoP token with a matching proof sent to an application with DPoP support
\* disabled has been rejected
C10_WitnessDisabled ==
    /\ Done
    /\ ~config.dpop_enabled
    /\ SchemeIs("DPoP")
    /\ TokenVerifies(Auth[1].credential, Domain)
    /\ request.headers["dpop"] # None
    /\ "claims" \in DOMAIN request.headers["dpop"][1]
    /\ DPoPProofValidator(request.headers["dpop"][1], http_url, upper(request.method),
                          Auth[1].credential, options) = "ok"
    /\ verify_calls = 0
    /\ outcome[1].status_code = 400


Authenticated == outcome # None /\ outcome[1].kind = "Authenticated"

\* the DPoP header of the request
Proof == request.headers["dpop"]

Decodable == Proof # None /\ "claims" \in DOMAIN Proof[1]

Undecodable == Proof # None /\ "raw" \in DOMAIN Proof[1]

\* C11: a request without Authorization header, or with one that is not a scheme and a
\* credential, ends Rejected with status 400 and error invalid_request, whatever
\* dpop_enabled and dpop_required are.
C11_MissingCredential ==
    (Done /\ Auth = None) =>
        /\ Rejected
        /\ outcome[1].status_code = 400
        /\ outcome[1].detail.error = "invalid_request"

\* a request without Authorization header to an application that requires DPoP has been
\* rejected with 400
C11_Witness ==
    /\ Done
    /\ request.headers["authorization"] = None
    /\ config.dpop_required
    /\ Rejected
    /\ outcome[1].status_code = 400

\* an Authorization header of one word only has been rejected with 400
C11_WitnessUnparsable ==
    /\ Done
    /\ request.headers["authorization"] # None
    /\ Auth = None
    /\ Rejected
    /\ outcome[1].status_code = 400

C12_WitnessMissing ==
    /\ Done
    /\ SchemeIs("DPoP")
    /\ verified # None
    /\ Proof = None
    /\ outcome[1].status_code = 400
    /\ outcome[1].detail.error = "invalid_request"

\* the proof of a DPoP request passes every check of the validator but the method's
OnlyMethodDiffers ==
    /\ Decodable
    /\ Proof[1].claims.htm # upper(request.method)
    /\ Proof[1].claims.htu = http_url
    /\ DPoPProofValidator([Proof[1] EXCEPT !.claims.htm = upper(request.method)], http_url,
                          upper(request.method), Auth[1].credential, options) = "ok"

\* C13: a DPoP request whose proof's htm differs from the request's method upper-cased
\* is never authenticated; where the proof is validated (the token is verified), the
\* request ends Rejected with error invalid_dpop_proof and the mismatch is the method's,
\* also when token, htu and ath are all valid.
C13_MethodMismatch ==
    /\ (Done /\ SchemeIs("DPoP") /\ Decodable /\ Proof[1].claims.htm # upper(request.method)) =>
           Rejected
    /\ (Done /\ SchemeIs("DPoP") /\ Decodable /\ Proof[1].claims.htm # upper(request.method)
             /\ verified # None) =>
           /\ outcome[1].detail.error = "invalid_dpop_proof"
           /\ error[1].kind = "ProofBindingMismatch"
           /\ error[1].reason = "method"

\* a GET request with a verified token and a proof built for POST, right in everything
\* else, has been rejected as invalid_dpop_proof
C13_Witness ==
    /\ Done
    /\ SchemeIs("DPoP")
    /\ request.method = M_GET
    /\ verified # None
    /\ OnlyMethodDiffers
    /\ Proof[1].claims.htm = M_POST
    /\ Rejected
    /\ outcome[1].detail.error = "invalid_dpop_proof"


\* the canonical URL of the request
CanonicalUrl == get_canonical_url(app_state, request)

\* C14: a DPoP request is authenticated only if the proof's htu is string-identical to
\* get_canonical_url(request); where the proof is validated (the token is verified), any
\* other htu ends Rejected with error invalid_dpop_proof, and the mismatch is the URL's
\* when the method matches.
C14_HtuIsCanonicalUrl ==
    /\ (Done /\ SchemeIs("DPoP") /\ Authenticated) =>
           (Decodable /\ Proof[1].claims.htu = CanonicalUrl)
    /\ (Done /\ SchemeIs("DPoP") /\ Decodable /\ verified # None
             /\ Proof[1].claims.htu # CanonicalUrl) =>
           /\ Rejected
           /\ outcome[1].detail.error = "invalid_dpop_proof"
           /\ error[1].kind = "ProofBindingMismatch"
           /\ Proof[1].claims.htm = upper(request.method) => error[1].reason = "url"

\* behind a proxy that is not trusted, a proof for the public URL, right in everything
\* else, has been rejected as invalid_dpop_proof
C14_Witness ==
    /\ Done
    /\ SchemeIs("DPoP")
    /\ app_state.trust_proxy = None
    /\ request.headers["x-forwarded-host"] # None
    /\ verified # None
    /\ Decodable
    /\ Proof[1].claims.htu = U_public_test
    /\ DPoPProofValidator([Proof[1] EXCEPT !.claims.htu = http_url], http_url, upper(request.method),
                          Auth[1].credential, options) = "ok"
    /\ error[1].reason = "url"
    /\ outcome[1].detail.error = "invalid_dpop_proof"

\* a proof for the direct URL with a trailing slash has been rejected
C14_WitnessTrailingSlash ==
    /\ Done
    /\ SchemeIs("DPoP")
    /\ verified # None
    /\ Decodable
    /\ Proof[1].claims.htu = U_internal_test_slash
    /\ http_url = U_internal_test
    /\ error[1].reason = "url"

\* a proof for the direct URL with the host in upper case has been rejected
C14_WitnessHostCase ==
    /\ Done
    /\ SchemeIs("DPoP")
    /\ verified # None
    /\ Decodable
    /\ Proof[1].claims.htu = U_INTERNAL_test
    /\ http_url = U_internal_test
    /\ error[1].reason = "url"

\* behind a trusted proxy a proof for the public URL has been accepted
C14_WitnessTrusted ==
    /\ Done
    /\ SchemeIs("DPoP")
    /\ app_state.trust_proxy = Some(TRUE)
    /\ request.headers["x-forwarded-host"] # None
    /\ Authenticated
    /\ Proof[1].claims.htu = U_public_test

\* the request carries a token of generate_dpop_bound_token (default cnf_jkt) as DPoP
\* credential and the proof of generate_dpop_proof for the request's method, its canonical
\* URL and that token
GeneratedRequest ==
    /\ SchemeIs("DPoP")
    /\ \E sc \in ScopeClaims :
           Auth[1].credential = generate_dpop_bound_token(Domain, "user_123", None, TRUE,
                                                          extra_claims(None, sc), None)
    /\ Proof = Some(generate_dpop_proof(request.method, CanonicalUrl, Some(Auth[1].credential),
                                        None, 0, Jti))

UnexpectedFailure == error # None /\ error[1].kind = "UnexpectedFailure"

\* C15: generator/validator agreement: a token of generate_dpop_bound_token and a proof of
\* generate_dpop_proof built for the request's method, its canonical URL and that token,
\* sent as Authorization: DPoP with the DPoP header to an application with DPoP enabled,
\* pass the verifier (unless the verifier fails unexpectedly): the token's cnf.jkt is the
\* thumbprint of the key in the proof header, the proof's ath is the hash of the token,
\* and without scope requirement the request is Authenticated with the token's sub.
C15_GeneratorValidatorAgreement ==
    (Done /\ GeneratedRequest /\ config.dpop_enabled /\ ~UnexpectedFailure) =>
        /\ error = None
        /\ verified = Some(Auth[1].credential.claims)
        /\ Auth[1].credential.claims.cnf = Some([jkt |-> Thumbprint(Proof[1].header.jwk)])
        /\ Proof[1].claims.ath = Sha256(Auth[1].credential)
        /\ scopes = None =>
              /\ Authenticated
              /\ outcome[1].claims.sub = "user_123"

\* a POST request behind a trusted proxy with generated token and proof has been
\* authenticated
C15_Witness ==
    /\ Done
    /\ GeneratedRequest
    /\ request.method = M_POST
    /\ CanonicalUrl = U_public_test
    /\ scopes = None
    /\ Authenticated
    /\ outcome[1].claims.sub = "user_123"

\* a GET request on a direct connection with generated token and proof has been
\* authenticated in DPoP-required mode
C15_WitnessDirect ==
    /\ Done
    /\ GeneratedRequest
    /\ config.dpop_required
    /\ request.method = M_GET
    /\ CanonicalUrl = U_internal_test
    /\ Authenticated


----------------------------------------------------------------------------
(* Claims on the scope check *)

Validated == pc = "validated"

IsSpace(c) == c \in Whitespace

\* s[i..j] is a whole item of s: a maximal run of characters that are not whitespace
IsItemAt(s, i, j) ==
    /\ i <= j
    /\ \A k \in i..j : ~IsSpace(s[k])
    /\ i = 1 \/ IsSpace(s[i - 1])
    /\ j = Len(s) \/ IsSpace(s[j + 1])

\* r is one of the whitespace-separated items of s
IsItemOf(r, s) == \E i \in 1..Len(s), j \in 1..Len(s) : IsItemAt(s, i, j) /\ SubSeq(s, i, j) = r

ScopeClaim == verified[1].scope

\* C16: validate_scopes(claims, required) is true exactly when the scope claim is present
\* and not empty and every element of required is, as a whole, one of the
\* whitespace-separated items of the claim; 'read:data write:data' satisfies
\* ['read:data'] and not ['delete:data']; a missing or empty scope claim satisfies no
\* required list.
C16_ValidateScopes ==
    Validated =>
        /\ outcome[1].result =
              (/\ ScopeClaim # None
               /\ ScopeClaim[1] # <<>>
               /\ \A i \in 1..Len(scopes[1].list) : IsItemOf(scopes[1].list[i], ScopeClaim[1]))
        /\ (ScopeClaim = Some(S_scope_read_write) /\ scopes[1].list = <<S_read_data>>) =>
              outcome[1].result
        /\ (ScopeClaim = Some(S_scope_read_write) /\ scopes[1].list = <<S_delete_data>>) =>
              ~outcome[1].result
        /\ (ScopeClaim = None \/ ScopeClaim = Some(<<>>)) => ~outcome[1].result

\* 'read:database' has been found not to satisfy ['read:data']
C16_Witness ==
    /\ Validated
    /\ ScopeClaim = Some(S_read_database)
    /\ scopes[1].list = <<S_read_data>>
    /\ ~outcome[1].result

\* the padded claim has been found to satisfy ['write:data', 'read:data']
C16_WitnessPadded ==
    /\ Validated
    /\ ScopeClaim = Some(S_scope_padded)
    /\ scopes[1].list = <<S_write_data, S_read_data>>
    /\ outcome[1].result

\* a missing scope claim has been found not to satisfy the empty list
C16_WitnessMissing ==
    /\ Validated
    /\ ScopeClaim = None
    /\ scopes[1].list = <<>>
    /\ ~outcome[1].result


----------------------------------------------------------------------------
(* Claims on the outcome of the dependency, checked under Spec *)

\* the scopes argument is None or empty
NoScopesRequired ==
    \/ scopes = None
    \/ ("list" \in DOMAIN scopes[1] /\ scopes[1].list = <<>>)
    \/ ("str" \in DOMAIN scopes[1] /\ scopes[1].str = <<>>)

\* the required scopes: a single string counts as a list of one
RequiredScopes == IF "str" \in DOMAIN scopes[1] THEN <<scopes[1].str>> ELSE scopes[1].list

\* the verified claims lack at least one required scope
LacksRequiredScope ==
    \/ verified[1].scope = None
    \/ \E i \in 1..Len(RequiredScopes) : ~IsItemOf(RequiredScopes[i], verified[1].scope[1])

Is403 == outcome # None /\ outcome[1].kind = "Rejected" /\ outcome[1].status_code = 403

\* C17: the dependency ends with status 403 and error insufficient_scope only when token
\* verification has succeeded, scopes is not empty and the verified claims lack a
\* required scope, a single string counting as a list of one, and it does end so in that
\* case when the scope claim is a string or missing; a request whose verification failed
\* is never reported as 403, nor is any request when scopes is None or empty.
C17_InsufficientScope ==
    Done =>
        /\ Is403 => (verified # None /\ error = None /\ ~NoScopesRequired /\ LacksRequiredScope)
        /\ (verified # None /\ error = None /\ ~NoScopesRequired /\ LacksRequiredScope
               /\ ~validate_scopes_raises(verified[1])) => Is403
        /\ Is403 => outcome[1].detail.error = "insufficient_scope"
        /\ error # None => ~Is403
        /\ NoScopesRequired => ~Is403

\* a verified token with scope 'read:data write:data' on a route requiring
\* ['read:data', 'delete:data'] has been rejected with 403
C17_Witness ==
    /\ Done
    /\ verified # None
    /\ verified[1].scope = Some(S_scope_read_write)
    /\ scopes = Some([list |-> <<S_read_data, S_delete_data>>])
    /\ Is403
    /\ outcome[1].detail.error = "insufficient_scope"

\* the same token on a route requiring the string 'read:data' has been authenticated
C17_WitnessString ==
    /\ Done
    /\ verified # None
    /\ verified[1].scope = Some(S_scope_read_write)
    /\ scopes = Some([str |-> S_read_data])
    /\ Authenticated

\* a token the verifier rejected, on a route requiring scopes, has been rejected with 401
C17_WitnessUnverified ==
    /\ Done
    /\ ~NoScopesRequired
    /\ error # None
    /\ error[1].kind = "UpstreamVerificationFailure"
    /\ outcome[1].status_code = 401


\* C18: every request the dependency has handled ended in exactly one of two outcomes:
\* Authenticated, returning the claim mapping of the verified token unmodified, or
\* Rejected, with a status code, an error code and a description and without claims; a
\* request for which any step raised an error is Rejected, and there is no outcome
\* before the end.
C18_OneOutcome ==
    /\ (outcome # None) <=> Done
    /\ Done =>
          /\ Authenticated # Rejected
          /\ Authenticated =>
                /\ error = None
                /\ DOMAIN outcome[1] = {"kind", "claims"}
                /\ verified = Some(Auth[1].credential.claims)
                /\ outcome[1].claims = verified[1]
          /\ Rejected =>
                /\ "claims" \notin DOMAIN outcome[1]
                /\ outcome[1].status_code \in {400, 401, 403}
                /\ outcome[1].detail.error \in
                       {"invalid_request", "invalid_token", "invalid_dpop_proof", "insufficient_scope"}
                /\ DOMAIN outcome[1].detail = {"error", "error_description"}
          /\ error # None => Rejected

\* a request was authenticated and the claims returned are those of its token
C18_Witness ==
    /\ Done
    /\ Authenticated
    /\ outcome[1].claims = Auth[1].credential.claims
    /\ outcome[1].claims.scope = Some(S_scope_read_write)

\* a request during which the verifier failed unexpectedly was rejected, without claims
C18_WitnessRejected ==
    /\ Done
    /\ UnexpectedFailure
    /\ Rejected
    /\ "claims" \notin DOMAIN outcome[1]


ErrorKind == IF error = None THEN "none" ELSE error[1].kind

\* the error is a mismatch the proof validator reported for the proof of a DPoP request
ValidatorMismatch == ErrorKind = "ProofBindingMismatch" /\ SchemeIs("DPoP")

\* the error is the key-binding mismatch of a bound token presented as Bearer
BearerKeyBinding == ErrorKind = "ProofBindingMismatch" /\ SchemeIs("Bearer")

\* C19 as the specification states it: missing or malformed credential and unsupported
\* scheme give 400; a token the verifier rejects and every proof-binding mismatch
\* (method, url, ath, iat-window, key-binding) give 401; insufficient scope gives 403.
C19_StatusMappingAsStated ==
    (Done /\ Rejected) =>
        /\ ErrorKind \in {"MissingCredential", "UnsupportedScheme"} => outcome[1].status_code = 400
        /\ ErrorKind \in {"UpstreamVerificationFailure", "ProofBindingMismatch"} =>
              outcome[1].status_code = 401
        /\ ErrorKind = "none" => outcome[1].status_code = 403

\* C19, amended: missing or malformed credential, unsupported scheme, a missing DPoP
\* header, an undecodable proof and every mismatch the proof validator reports for a DPoP
\* request (method, url, ath, iat-window, key-binding; error invalid_dpop_proof) give 400;
\* a token the verifier rejects and a DPoP-bound token presented as Bearer give 401;
\* insufficient scope gives 403.
C19_StatusMapping ==
    (Done /\ Rejected) =>
        /\ ErrorKind \in {"MissingCredential", "UnsupportedScheme", "MissingProof", "MalformedProof"} =>
              outcome[1].status_code = 400
        /\ ValidatorMismatch =>
              (outcome[1].status_code = 400 /\ outcome[1].detail.error = "invalid_dpop_proof")
        /\ ErrorKind = "UpstreamVerificationFailure" => outcome[1].status_code = 401
        /\ BearerKeyBinding => outcome[1].status_code = 401
        /\ ErrorKind = "none" =>
              (outcome[1].status_code = 403 /\ outcome[1].detail.error = "insufficient_scope")

\* a GET request with a verified token and a proof built for POST has been rejected with
\* status 400
C19_Witness ==
    /\ Done
    /\ ValidatorMismatch
    /\ error[1].reason = "method"
    /\ request.method = M_GET
    /\ Proof[1].claims.htm = M_POST
    /\ outcome[1].status_code = 400
    /\ outcome[1].detail.error = "invalid_dpop_proof"

\* a proof older than dpop_iat_offset has been rejected with status 400
C19_WitnessIat ==
    /\ Done
    /\ ValidatorMismatch
    /\ error[1].reason = "iat-window"
    /\ outcome[1].status_code = 400

\* a token without iss claim has been rejected with status 401
C19_WitnessInvalidToken ==
    /\ Done
    /\ ErrorKind = "UpstreamVerificationFailure"
    /\ Auth[1].credential.claims.iss = None
    /\ outcome[1].status_code = 401


\* the verifier raised an auth error
AuthErrorRaised == error # None /\ error[1].kind # "UnexpectedFailure"

\* C20: when the verifier rejects a request with an auth error, the response carries
\* exactly that error's status code, its error code and description as the body
\* {error, error_description}, and exactly its challenge headers: nothing is dropped,
\* replaced or added.
C20_ErrorPassedThrough ==
    (Done /\ AuthErrorRaised) =>
        /\ Rejected
        /\ outcome[1].status_code = error[1].status_code
        /\ outcome[1].detail =
               [error |-> error[1].error_code, error_description |-> error[1].error_description]
        /\ outcome[1].headers = error[1].headers
        /\ DOMAIN outcome[1] = {"kind", "status_code", "detail", "headers"}

\* a rejected token in mixed mode: the response carries status 401 and the Bearer and DPoP
\* challenges of the error
C20_Witness ==
    /\ Done
    /\ AuthErrorRaised
    /\ error[1].kind = "UpstreamVerificationFailure"
    /\ outcome[1].status_code = 401
    /\ outcome[1].headers.www_authenticate = {"Bearer", "DPoP"}
    /\ outcome[1].detail.error = "invalid_token"

\* an error without challenges (DPoP required and not enabled): the response has none
C20_WitnessNoChallenge ==
    /\ Done
    /\ AuthErrorRaised
    /\ error[1].headers.www_authenticate = {}
    /\ outcome[1].headers.www_authenticate = {}


----------------------------------------------------------------------------
(* Claims on exceptions and on the end of a request, checked under Spec *)

\* an exception has left the dependency: no response was built by http_exception
Escaped == outcome # None /\ outcome[1].kind = "Raised"

\* C21: an unanticipated exception raised at any step of the dependency (canonical-URL
\* resolution, the verifier call, the scope check on a scope claim that is no string) is
\* converted into a rejection with a status code, an error code and a description; no
\* exception leaves the dependency unmapped.
C21_ExceptionsMapped ==
    Done =>
        /\ ~Escaped
        /\ UnexpectedFailure =>
              /\ Rejected
              /\ outcome[1].status_code = 400
              /\ outcome[1].detail.error = "invalid_request"
              /\ DOMAIN outcome[1].detail = {"error", "error_description"}

\* an exception of the resolver has been mapped to a rejection
C21_WitnessResolver ==
    /\ Done
    /\ request.url = U_bracket_test
    /\ UnexpectedFailure
    /\ Rejected
    /\ outcome[1].status_code = 400

\* an exception of the scope check has left the dependency
C21_WitnessEscaped ==
    /\ Done
    /\ verified # None
    /\ verified[1].scope = Some(L_read_data)
    /\ scopes = Some([str |-> S_read_data])
    /\ Escaped

\* C22: the body of a rejection carries no internal detail: the response to a request
\* during which an unexpected internal exception was raised has the body it would have
\* had if the exception had carried any other message text.
C22_BodyIndependentOfMessage ==
    (Done /\ UnexpectedFailure) =>
        \A m \in ExceptionMessages : outcome[1].detail = on_exception(m).detail

\* C28: every rejection is terminal and nothing is retried: the verifier is invoked at
\* most once per request; the step in which an error is raised invokes the verifier no
\* further, runs no scope check and ends the request with the rejection mapped from that
\* error; and no step follows a rejection or an error.
C28_RejectionTerminal ==
    [][/\ verify_calls' <= 1
       /\ ~(Rejected \/ error # None)
       /\ error' # None =>
             /\ verify_calls' = verify_calls
             /\ pc' = "done"
             /\ outcome' = Some(IF error'[1].kind = "UnexpectedFailure"
                                THEN on_exception(error'[1].message)
                                ELSE on_auth_error(error'[1]))
       /\ Rejected' => pc' = "done"]_vars

\* a token the verifier rejected on a route that requires scopes: one call of the
\* verifier, no scope check, status 401
C28_Witness ==
    /\ Done
    /\ ErrorKind = "UpstreamVerificationFailure"
    /\ ~NoScopesRequired
    /\ verify_calls = 1
    /\ outcome[1].status_code = 401

\* an unexpected exception of the verifier ended the request after one call
C28_WitnessUnexpected ==
    /\ Done
    /\ UnexpectedFailure
    /\ verify_calls = 1
    /\ Rejected


----------------------------------------------------------------------------
(* Claims on the generators of the test utilities, checked under SpecGen *)

Returned == pc = "returned"

Called(fn) == call # None /\ call.fn = fn

TokenRequested == Called("generate_token") \/ Called("generate_dpop_bound_token")

\* the dict carries the four members the thumbprint is made of
Complete(d) == \A k \in ThumbprintMembers : has_key(d, k)

\* two complete dicts agree on the values of crv, kty, x and y
SameKeyMaterial(a, b) == \A k \in ThumbprintMembers : getitem(a, k) = getitem(b, k)

IsThumbprint(r) == r[1] = "sha256"

IsKeyError(r) == r[1] = "KeyError"

\* C23: calculate_jwk_thumbprint is a function of the values of crv, kty, x and y only:
\* for a key that carries the four, the result is a thumbprint, and every key with the
\* same four values, whatever the order of its fields and whatever other fields (alg,
\* use, kid, d) it carries or lacks, has the identical thumbprint; the private and the
\* public test key have the same thumbprint; a key that lacks one of the four fields
\* gives an error and no thumbprint.
C23_ThumbprintOfFourFields ==
    (Returned /\ Called("calculate_jwk_thumbprint")) =>
        /\ Complete(call.jwk_dict) =>
              /\ IsThumbprint(result[1])
              /\ \A d \in JwkDicts :
                     (Complete(d) /\ SameKeyMaterial(d, call.jwk_dict)) =>
                         calculate_jwk_thumbprint(d) = result[1]
        /\ ~Complete(call.jwk_dict) =>
              /\ IsKeyError(result[1])
              /\ ~has_key(call.jwk_dict, result[1][2])
        /\ calculate_jwk_thumbprint(PRIVATE_DPOP_JWK) = calculate_jwk_thumbprint(PUBLIC_DPOP_JWK)

\* the thumbprint of the private test key, its fields reversed, is the thumbprint of the
\* four public fields
C23_Witness ==
    /\ Returned
    /\ Called("calculate_jwk_thumbprint")
    /\ call.jwk_dict = reversed(PRIVATE_DPOP_JWK)
    /\ IsThumbprint(result[1])
    /\ result[1] = calculate_jwk_thumbprint(without_others(PUBLIC_DPOP_JWK, ThumbprintMembers))
    /\ result[1] = Thumbprint(proof_header_jwk(PUBLIC_DPOP_JWK))

\* the test key without its x has given a KeyError
C23_WitnessMissing ==
    /\ Returned
    /\ Called("calculate_jwk_thumbprint")
    /\ call.jwk_dict = without_others(PRIVATE_DPOP_JWK, JwkMembers \ {"x"})
    /\ result[1] = KeyError("x")

\* another key has another thumbprint
C23_WitnessOtherKey ==
    /\ Returned
    /\ Called("calculate_jwk_thumbprint")
    /\ call.jwk_dict = reversed(OTHER_DPOP_JWK)
    /\ IsThumbprint(result[1])
    /\ result[1] = Thumbprint(OTHER_JWK)
    /\ result[1] # calculate_jwk_thumbprint(PUBLIC_DPOP_JWK)

\* C24: token generation forces the subject: for every claims argument, one with a 'sub'
\* entry included, the 'sub' claim of the token of generate_token and of
\* generate_dpop_bound_token is the user_id argument.
C24_SubjectForced ==
    (Returned /\ TokenRequested) => result[1].claims.sub = call.user_id

\* a token generated for user_123 with a claims argument that carries sub = admin
C24_WitnessOverridden ==
    /\ Returned
    /\ TokenRequested
    /\ call.user_id = "user_123"
    /\ call.claims.sub = Some("admin")
    /\ result[1].claims.sub = "admin"

C25_WitnessDefault ==
    /\ Returned
    /\ Called("generate_dpop_bound_token")
    /\ call.issuer = None
    /\ result[1].claims.iss = Some(<<"https://", "auth0.local", "/">>)

\* generate_token with a string issuer has returned a token of that issuer
C25_WitnessString ==
    /\ Returned
    /\ Called("generate_token")
    /\ call.issuer = Some([str |-> S_invalid_issuer])
    /\ result[1].claims.iss = Some(S_invalid_issuer)

\* C26: token generation with an empty subject fails with an InvalidTokenSpec error and
\* produces no token.
C26_EmptySubjectRejected ==
    (Returned /\ TokenRequested /\ call.user_id = "") =>
        /\ "claims" \notin DOMAIN result[1]
        /\ "raised" \in DOMAIN result[1]
        /\ result[1].raised = "InvalidTokenSpec"

\* a token with the empty subject has been generated
C26_WitnessToken ==
    /\ Returned
    /\ Called("generate_token")
    /\ call.user_id = ""
    /\ call.claims.sub = None
    /\ result[1].claims.sub = ""

\* the claim names the specification gives a proof for the call
ProofClaimNames ==
    {"jti", "htm", "htu", "iat"}
        \cup (IF call.access_token # None THEN {"ath"} ELSE {})
        \cup (IF call.nonce # None THEN {"nonce"} ELSE {})

\* C27: every proof of generate_dpop_proof has a body whose claim names are exactly jti,
\* htm, htu, iat, plus ath if and only if an access token was supplied and nonce if and
\* only if a nonce was supplied, and no other claim; htm is the method upper-cased, htu
\* is the url argument unchanged, and the header embeds the public key fields kty, crv,
\* x, y only.
C27_ProofClaims ==
    (Returned /\ Called("generate_dpop_proof")) =>
        /\ DOMAIN result[1].claims = ProofClaimNames
        /\ result[1].claims.htm = (IF call.http_method = M_POST THEN M_POST ELSE M_GET)
        /\ result[1].claims.htu = call.http_url
        /\ DOMAIN result[1].header.jwk = {"kty", "crv", "x", "y"}

\* a proof generated for 'get' without token and nonce carries the claim jkt
C27_WitnessJkt ==
    /\ Returned
    /\ Called("generate_dpop_proof")
    /\ call.http_method = M_get
    /\ call.access_token = None
    /\ call.nonce = None
    /\ DOMAIN result[1].claims = {"jti", "htm", "htu", "iat", "jkt"}
    /\ result[1].claims.htm = M_GET
    /\ DOMAIN result[1].header.jwk = {"kty", "crv", "x", "y"}

----------------------------------------------------------------------------
(* Claims on concurrent requests, checked under SpecConc *)

\* the request as it ends when the coroutine was suspended at the await or not
finished(opts, b, exc) == IF b.pc = "done" THEN b ELSE resumed(opts, b, b.http_url, exc)

\* the request run alone through the instance, the verifier raising exc if it is called
run_alone(app, opts, req, sc, exc) == finished(opts, begun(app, opts, arrived(req, sc)), exc)

\* the exception the verifier raised during the request, if any
verifier_exception(r) ==
    IF r.error # None /\ r.error[1].kind = "UnexpectedFailure"
          /\ r.error[1].message \in ExceptionMessages
    THEN Some(r.error[1].message)
    ELSE None

\* C29: requests are isolated under concurrency: whatever the interleaving of the
\* requests at the await of the verifier, each request that has ended has the outcome
\* (claims or rejection), the error and the verified claims that the same request, with
\* the same answer of the verifier, has when run alone; a request that has not ended has
\* no outcome; and no step changes the trust policy or the DPoP settings, which remain
\* those of the constructor.
C29_Isolation ==
    /\ [](\A i \in DOMAIN inflight :
             /\ inflight[i].pc = "done" =>
                    inflight[i] = run_alone(app_state, options, inflight[i].request,
                                            inflight[i].scopes, verifier_exception(inflight[i]))
             /\ inflight[i].pc # "done" => inflight[i].outcome = None)
    /\ [](options = Auth0FastAPI_init(config))
    /\ [][app_state' = app_state /\ options' = options /\ config' = config]_vars

\* a DPoP request behind the trusted proxy was authenticated while a bearer request that
\* had started was still suspended at the verifier
C29_Witness ==
    /\ inflight # <<>>
    /\ inflight[1].pc = "awaiting"
    /\ inflight[1].http_url = U_internal_test
    /\ inflight[1].request.headers["authorization"] = Some(<<"Bearer", T_scoped>>)
    /\ inflight[2].pc = "done"
    /\ inflight[2].http_url = U_public_test
    /\ inflight[2].outcome = Some([kind |-> "Authenticated", claims |-> T_bound.claims])

\* two requests have ended with different outcomes: the first rejected for its scopes,
\* the second authenticated
C29_WitnessBothDone ==
    /\ inflight # <<>>
    /\ inflight[1].pc = "done"
    /\ inflight[1].outcome # None
    /\ inflight[1].outcome[1].kind = "Rejected"
    /\ inflight[1].outcome[1].status_code = 403
    /\ inflight[2].pc = "done"
    /\ inflight[2].outcome # None
    /\ inflight[2].outcome[1].kind = "Authenticated"
    /\ inflight[2].outcome[1].claims.sub = "user_456"

====
